---- MODULE Spec2Model ----
(***************************************************************************)
(* Model of the tracker (src/server.py, class CentralServer) of the P2P    *)
(* file sharing application: the peer map, the file map, and one worker    *)
(* thread (handle_client) per accepted registry connection.                *)
(*                                                                         *)
(* Every handler runs its whole body under `with self.lock:` and the rest  *)
(* of a loop iteration of handle_client touches only the worker's own      *)
(* locals and its own socket, so one iteration (recv, split, dispatch,     *)
(* handler, send) is one atomic action here; the order in which the        *)
(* actions of different connections occur is the order in which their      *)
(* workers obtain the lock.                                                *)
(*                                                                         *)
(* SpecThreads takes handle_register apart into its statements, with the   *)
(* lock as a variable. SpecPeer is a peer (src/client.py): fetch_file and  *)
(* download_from_peer on its command thread, handle_peer_download on a     *)
(* worker of its listener, and the shared folder both use. SpecStart is a *)
(* peer from its construction to its command loop, SpecFrontEnd the job    *)
(* threads of the front end on the one registry connection, SpecTransfer   *)
(* a transfer with the contents of the files on both sides. SpecOps takes  *)
(* handle_publish, handle_fetch and handle_disconnect apart into their     *)
(* statements, and LiveOps adds fair scheduling of the workers. LivePeer   *)
(* is the requesting side of SpecPeer with connections that deliver or     *)
(* close. SpecPair is two downloads of one peer writing the same file,     *)
(* SpecFanout one responder serving several requesters at the same time.   *)
(***************************************************************************)
EXTENDS Integers, Sequences, FiniteSets, TLC

\* ------------------------------------------------------------------ bounds
NumHosts == 2
NumPorts == 1
MaxReqs == 4

\* ------------------------------------------------------ inputs of the model
HostPool == <<"alice", "bob", "carol", "dave">>

\* Two registry connections: a request comes over the connection that
\* registered the hostname it names, or over another one.
Conns == {1, 2}
Hostnames == {HostPool[i] : i \in 1 .. NumHosts}

\* Two filenames: a peer's files keep their order of first publication, and
\* the records of different files are independent of each other.
Filenames == {"a.txt", "b.txt"}
PortNumbers == {9000 + i : i \in 1 .. NumPorts}
PortTokens == {ToString(p) : p \in PortNumbers}

\* client_address[0] of the accepted connection c
client_address(c) == "10.0.0." \o ToString(c)

\* Python's None (hostname = None)
None == "<None>"

\* int(parts[2]): the number a decimal token denotes; ValueError otherwise
IsNumeric(tok) == \E n \in PortNumbers : ToString(n) = tok
int(tok) == CHOOSE n \in PortNumbers : ToString(n) = tok

VARIABLES
  clients,     \* self.clients: hostname -> [ip, port, socket, active]
  clientKeys,  \* the keys of self.clients in insertion order
  files,       \* self.files: filename -> [owner, holders]
  fileKeys,    \* the keys of self.files in insertion order
  pc,          \* each connection's worker: "init", "recv" or "closed"
  hostname,    \* handle_client's local variable hostname, per worker
  nreq,        \* number of REGISTER and PUBLISH requests received so far
  lock,        \* self.lock: the connections whose workers are inside `with self.lock:`
  call,        \* the handle_register call a worker is in: its arguments and response
  sent,        \* the responses to REGISTER sent so far, with their requests
  disk,        \* a peer's shared folder: the size of its file a.txt, or NoFile
  fetcher,     \* the peer's command thread in fetch_file / download_from_peer
  responder,   \* the peer's worker in handle_peer_download
  startup,     \* a peer in start(): connect_to_server, auto_publish_files, listener
  frontend,    \* the front end's job threads on the one registry connection
  xfer,        \* one transfer with the contents of the files on both sides
  ops,         \* the tracker with its workers inside handle_publish, handle_fetch, handle_disconnect
  pair,        \* two downloads of one file into the same share directory
  fanout       \* one responder serving several requesters at the same time

vars == <<clients, clientKeys, files, fileKeys, pc, hostname, nreq>>

\* the state of the workers between the statements of a handler
threadVars == <<lock, call, sent>>

\* the state of a peer (src/client.py)
peerVars == <<disk, fetcher, responder>>

\* a peer starting, its front end, and a transfer seen byte by byte
clientVars == <<startup, frontend, xfer, ops, pair, fanout>>

\* workers of one process side by side: the tracker's, a peer's downloads,
\* a peer's inbound transfers
concVars == <<ops, pair, fanout>>

\* the CentralServer object the handlers are methods of
Self ==
  [clients |-> clients, clientKeys |-> clientKeys, files |-> files, fileKeys |-> fileKeys]

\* a response line: its first token and the tokens after it
Resp(tag, args) == [tag |-> tag, args |-> args]

\* `x in list`
InSeq(x, s) == \E i \in 1 .. Len(s) : s[i] = x

\* os.path.exists(filepath) is false
NoFile == -1

\* the command thread before any command
FetcherIdle ==
  [pc |-> "idle", mode |-> "none", peers |-> <<>>, i |-> 0, filesize |-> 0,
   received |-> 0, eof |-> FALSE, ok |-> "none", attempts |-> <<>>,
   nFetch |-> 0, result |-> "none", requests |-> <<>>, out |-> <<>>,
   log |-> <<>>, cbRaised |-> FALSE, before |-> NoFile]

\* the P2P listener before any peer connection
ResponderIdle ==
  [pc |-> "listen", reply |-> None, filesize |-> 0, ack |-> None, sent |-> 0,
   pos |-> 0, error |-> FALSE]

\* P2PClient.__init__: not connected, not registered, no listener thread
StartupIdle ==
  [pc |-> "new", dir |-> <<>>, i |-> 0, registered |-> FALSE, requests |-> <<>>,
   result |-> "none", listener |-> "none", listed |-> {}, failed |-> {},
   broken |-> FALSE]

\* the job threads of the front end: each runs one registry operation
Threads == {1, 2}

\* the front end with no job running and nothing on the registry connection
FrontEndIdle ==
  [job |-> [t \in Threads |-> [pc |-> "idle", request |-> None, reply |-> None]],
   inbox |-> <<>>, replies |-> <<>>, n |-> 0]

\* a responder with nothing shared yet and a requester before its download
TransferIdle ==
  [src |-> "", dst |-> "", held |-> {}, wire |-> "", rpc |-> "listen",
   filesize |-> 0, pos |-> 0, qpc |-> "idle", qsize |-> 0, received |-> 0,
   ok |-> "none", wpc |-> "idle"]

\* the tracker's workers, each before or between two requests
Workers == {1, 2, 3}

\* a worker in its receive loop, no request at hand
WorkerIdle ==
  [pc |-> "recv", op |-> None, filename |-> None, hostname |-> None,
   response |-> None, peers |-> <<>>, i |-> 0, fresh |-> FALSE, seen |-> None,
   left |-> None]

\* two download threads of one peer before their calls, and a.txt of the
\* shared folder, which does not exist yet
PairIdle ==
  [file |-> "", overlap |-> FALSE,
   d |-> [t \in Threads |->
            [pc |-> "idle", byte |-> "", filesize |-> 0, received |-> 0,
             pos |-> 0, buf |-> "", ok |-> "none"]]]

\* the requesters that download from one responder at the same time
Requesters == {1, 2}

\* a responder that listens, nothing shared yet, and for every requester
\* its download_from_peer call (q...) and the worker that will serve it
FanoutIdle ==
  [src |-> "", shared |-> FALSE, both |-> FALSE,
   pos |-> [h \in Requesters |-> 0],
   t |-> [k \in Requesters |->
            [rpc |-> "listen", filesize |-> 0, wire |-> "", qpc |-> "idle",
             qsize |-> 0, received |-> 0, got |-> "", ok |-> "none"]]]

\* CentralServer.__init__ with the workers of three connections
OpsIdle ==
  [self |-> [clients |-> [h \in {} |-> None], clientKeys |-> <<>>,
             files |-> [f \in {} |-> None], fileKeys |-> <<>>],
   lock |-> {}, w |-> [k \in Workers |-> WorkerIdle], n |-> 0]

\* CentralServer.__init__; no connection accepted yet
Init ==
  /\ clients = [h \in {} |-> None]
  /\ clientKeys = <<>>
  /\ files = [f \in {} |-> None]
  /\ fileKeys = <<>>
  /\ pc = [c \in Conns |-> "init"]
  /\ hostname = [c \in Conns |-> None]
  /\ nreq = 0
  /\ lock = {}
  /\ call = [c \in Conns |-> None]
  /\ sent = {}
  /\ disk = NoFile
  /\ fetcher = FetcherIdle
  /\ responder = ResponderIdle
  /\ startup = StartupIdle
  /\ frontend = FrontEndIdle
  /\ xfer = TransferIdle
  /\ ops = OpsIdle
  /\ pair = PairIdle
  /\ fanout = FanoutIdle

\* ------------------------------------------------------- handle_register
\* the check taking a disconnected hostname for a free one
RegisterExists_active(self, h) ==
  h \in DOMAIN self.clients /\ self.clients[h].active

\* `if hostname in self.clients`
RegisterExists(self, h) == h \in DOMAIN self.clients

\* the record stored for a new hostname
NewPeerRecord(ip, port, sock) ==
  [ip |-> ip, port |-> port, socket |-> sock, active |-> TRUE]

\* handle_register without the `if hostname in self.clients` check
handle_register_overwrite(self, h, ip, port, sock) ==
  [response |-> Resp("REGISTER_SUCCESS", <<>>),
   self |-> [self EXCEPT
     !.clients = [k \in DOMAIN self.clients \cup {h} |->
                    IF k = h THEN NewPeerRecord(ip, port, sock) ELSE self.clients[k]],
     !.clientKeys = IF h \in DOMAIN self.clients THEN self.clientKeys
                    ELSE Append(self.clientKeys, h)]]

\* `self.clients[hostname] = {...}`: the server after the assignment
StoreRecord(self, h, ip, port, sock) ==
  [self EXCEPT
    !.clients = [k \in DOMAIN self.clients \cup {h} |->
                   IF k = h THEN NewPeerRecord(ip, port, sock)
                   ELSE self.clients[k]],
    !.clientKeys = IF h \in DOMAIN self.clients THEN self.clientKeys
                   ELSE Append(self.clientKeys, h)]

\* the response of handle_register and the server it leaves
handle_register(self, h, ip, port, sock) ==
  IF RegisterExists(self, h)
  THEN [response |-> Resp("REGISTER_FAIL", <<"Hostname", "already", "exists">>),
        self |-> self]
  ELSE [response |-> Resp("REGISTER_SUCCESS", <<>>),
        self |-> StoreRecord(self, h, ip, port, sock)]

\* -------------------------------------------------------- handle_publish
\* handle_publish without the `if hostname not in self.clients` check
PublishKnown_any(self, h) == TRUE

\* handle_publish refusing a publisher that has disconnected
PublishKnown_active(self, h) == h \in DOMAIN self.clients /\ self.clients[h].active

\* `if hostname not in self.clients`, negated: the publisher is known
PublishKnown(self, h) == h \in DOMAIN self.clients

\* the publisher of an existing file taking its ownership
PublishRecord_reown(self, filename, h) ==
  IF filename \notin DOMAIN self.files
  THEN [owner |-> h, holders |-> <<h>>]
  ELSE IF ~InSeq(h, self.files[filename].holders)
       THEN [owner |-> h, holders |-> Append(self.files[filename].holders, h)]
       ELSE [self.files[filename] EXCEPT !.owner = h]

\* a new FileRecord created with an empty holders list
PublishRecord_noholder(self, filename, h) ==
  IF filename \notin DOMAIN self.files
  THEN [owner |-> h, holders |-> <<>>]
  ELSE IF ~InSeq(h, self.files[filename].holders)
       THEN [self.files[filename] EXCEPT !.holders = Append(@, h)]
       ELSE self.files[filename]

\* the publisher appended without the `not in holders` check
PublishRecord_dup(self, filename, h) ==
  IF filename \notin DOMAIN self.files
  THEN [owner |-> h, holders |-> <<h>>]
  ELSE [self.files[filename] EXCEPT !.holders = Append(@, h)]

\* the FileRecord of filename after h has published it
PublishRecord(self, filename, h) ==
  IF filename \notin DOMAIN self.files
  THEN [owner |-> h, holders |-> <<h>>]
  ELSE IF ~InSeq(h, self.files[filename].holders)
       THEN [self.files[filename] EXCEPT !.holders = Append(@, h)]
       ELSE self.files[filename]

\* the response of handle_publish and the server it leaves
handle_publish(self, filename, h) ==
  IF ~PublishKnown(self, h)
  THEN [response |-> Resp("PUBLISH_FAIL", <<"Client", "not", "registered">>),
        self |-> self]
  ELSE [response |-> Resp("PUBLISH_SUCCESS", <<>>),
        self |-> [self EXCEPT
          !.files = [k \in DOMAIN self.files \cup {filename} |->
                       IF k = filename THEN PublishRecord(self, filename, h)
                       ELSE self.files[k]],
          !.fileKeys = IF filename \in DOMAIN self.files THEN self.fileKeys
                       ELSE Append(self.fileKeys, filename)]]

\* ---------------------------------------------------------- handle_fetch
\* f"{client['ip']}:{client['port']}:{hostname}:{owner_flag}", as its fields
PeerEntry(self, h, owner) ==
  <<self.clients[h].ip, ToString(self.clients[h].port), h,
    IF h = owner THEN "1" ELSE "0">>

\* the holder test without the liveness flag
IsActiveHolder_any(self, h) == h \in DOMAIN self.clients

\* `if hostname in self.clients and self.clients[hostname]['active']`
IsActiveHolder(self, h) == h \in DOMAIN self.clients /\ self.clients[h].active

\* the loop inserting each entry at the front of peers
RECURSIVE FetchPeers_front(_, _, _, _)
FetchPeers_front(self, holders, owner, i) ==
  IF i > Len(holders) THEN <<>>
  ELSE FetchPeers_front(self, holders, owner, i + 1)
       \o (IF IsActiveHolder(self, holders[i])
           THEN <<PeerEntry(self, holders[i], owner)>> ELSE <<>>)

\* the loop over holders from position i, appending an entry per active holder
RECURSIVE FetchPeers(_, _, _, _)
FetchPeers(self, holders, owner, i) ==
  IF i > Len(holders) THEN <<>>
  ELSE (IF IsActiveHolder(self, holders[i])
        THEN <<PeerEntry(self, holders[i], owner)>> ELSE <<>>)
       \o FetchPeers(self, holders, owner, i + 1)

\* the response of handle_fetch
handle_fetch(self, filename) ==
  IF filename \notin DOMAIN self.files \/ Len(self.files[filename].holders) = 0
  THEN Resp("FETCH_NOT_FOUND", <<>>)
  ELSE LET peers == FetchPeers(self, self.files[filename].holders,
                               self.files[filename].owner, 1) IN
         IF peers = <<>> THEN Resp("FETCH_NOT_FOUND", <<>>)
         ELSE Resp("FETCH_OK", peers)

\* --------------------------------------------------- handle_list_clients
\* the loop inserting each active hostname at the front of active_clients
RECURSIVE ActiveClients_front(_, _)
ActiveClients_front(self, i) ==
  IF i > Len(self.clientKeys) THEN <<>>
  ELSE ActiveClients_front(self, i + 1)
       \o (IF self.clients[self.clientKeys[i]].active
           THEN <<self.clientKeys[i]>> ELSE <<>>)

\* the loop over self.clients.items() from position i
RECURSIVE ActiveClients(_, _)
ActiveClients(self, i) ==
  IF i > Len(self.clientKeys) THEN <<>>
  ELSE (IF self.clients[self.clientKeys[i]].active
        THEN <<self.clientKeys[i]>> ELSE <<>>)
       \o ActiveClients(self, i + 1)

\* the response of handle_list_clients
handle_list_clients(self) == Resp("LIST_CLIENTS_OK", ActiveClients(self, 1))

\* ------------------------------------------------ handle_discover_client
\* the loop listing only the files client_hostname owns
RECURSIVE ClientFiles_owned(_, _, _)
ClientFiles_owned(self, h, i) ==
  IF i > Len(self.fileKeys) THEN <<>>
  ELSE LET filename == self.fileKeys[i]
           file_info == self.files[filename] IN
       (IF h = file_info.owner THEN <<<<filename, "1">>>> ELSE <<>>)
       \o ClientFiles_owned(self, h, i + 1)

\* the loop over self.files.items() from position i
RECURSIVE ClientFiles(_, _, _)
ClientFiles(self, h, i) ==
  IF i > Len(self.fileKeys) THEN <<>>
  ELSE LET filename == self.fileKeys[i]
           file_info == self.files[filename] IN
       (IF InSeq(h, file_info.holders)
        THEN <<<<filename, IF h = file_info.owner THEN "1" ELSE "0">>>>
        ELSE <<>>)
       \o ClientFiles(self, h, i + 1)

\* the response of handle_discover_client
handle_discover_client(self, h) ==
  IF h \notin DOMAIN self.clients THEN Resp("DISCOVER_CLIENT_NOT_FOUND", <<>>)
  ELSE Resp("DISCOVER_CLIENT_OK", ClientFiles(self, h, 1))

\* ----------------------------------------------------- handle_disconnect
\* handle_disconnect deleting the PeerRecord
handle_disconnect_delete(self, h) ==
  IF h \in DOMAIN self.clients
  THEN [self EXCEPT
         !.clients = [k \in DOMAIN self.clients \ {h} |-> self.clients[k]],
         !.clientKeys = SelectSeq(self.clientKeys, LAMBDA k : k # h)]
  ELSE self

\* the server handle_disconnect(h) leaves
handle_disconnect(self, h) ==
  IF h \in DOMAIN self.clients
  THEN [self EXCEPT !.clients[h].active = FALSE]
  ELSE self

\* ------------------------------------------- server.start, handle_client
\* the handler's effect on the peer map and the file map takes place
Becomes(self) ==
  /\ clients' = self.clients
  /\ clientKeys' = self.clientKeys
  /\ files' = self.files
  /\ fileKeys' = self.fileKeys

\* the command tokens handle_client knows
Commands == {"REGISTER", "PUBLISH", "FETCH", "LIST_CLIENTS", "DISCOVER_CLIENT"}

\* the request raised: no response, the server as it was
Raised(self) == [response |-> None, self |-> self, raised |-> TRUE]

\* the response is sent and the loop goes on
Answered(response, self) == [response |-> response, self |-> self, raised |-> FALSE]

\* an unknown command ending the worker instead of being answered
Dispatch_strict(self, c, parts) ==
  IF parts[1] \notin Commands THEN Raised(self)
  ELSE IF parts[1] = "REGISTER" /\ Len(parts) >= 3 /\ IsNumeric(parts[3])
  THEN LET r == handle_register(self, parts[2], client_address(c), int(parts[3]), c)
       IN Answered(r.response, r.self)
  ELSE IF parts[1] = "PUBLISH" /\ Len(parts) >= 3
  THEN LET r == handle_publish(self, parts[2], parts[3])
       IN Answered(r.response, r.self)
  ELSE IF parts[1] = "FETCH" /\ Len(parts) >= 2
  THEN Answered(handle_fetch(self, parts[2]), self)
  ELSE IF parts[1] = "LIST_CLIENTS" THEN Answered(handle_list_clients(self), self)
  ELSE IF parts[1] = "DISCOVER_CLIENT"
  THEN Answered(IF Len(parts) < 2 THEN Resp("DISCOVER_CLIENT_NOT_FOUND", <<>>)
                ELSE handle_discover_client(self, parts[2]), self)
  ELSE Raised(self)

\* one turn of the loop of handle_client from `command = parts[0]` to the
\* response: the handler the command selects, run on the server self for
\* the worker of connection c; parts[i] of a missing field and int() of a
\* token that is no number raise
Dispatch(self, c, parts) ==
  IF parts[1] = "REGISTER"
  THEN IF Len(parts) < 3 \/ ~IsNumeric(parts[3]) THEN Raised(self)
       ELSE LET r == handle_register(self, parts[2], client_address(c),
                                     int(parts[3]), c)
            IN Answered(r.response, r.self)
  ELSE IF parts[1] = "PUBLISH"
  THEN IF Len(parts) < 3 THEN Raised(self)
       ELSE LET r == handle_publish(self, parts[2], parts[3])
            IN Answered(r.response, r.self)
  ELSE IF parts[1] = "FETCH"
  THEN IF Len(parts) < 2 THEN Raised(self)
       ELSE Answered(handle_fetch(self, parts[2]), self)
  ELSE IF parts[1] = "LIST_CLIENTS" THEN Answered(handle_list_clients(self), self)
  ELSE IF parts[1] = "DISCOVER_CLIENT"
  THEN Answered(IF Len(parts) < 2 THEN Resp("DISCOVER_CLIENT_NOT_FOUND", <<>>)
                ELSE handle_discover_client(self, parts[2]), self)
  ELSE Answered(Resp("UNKNOWN_COMMAND", <<>>), self)

\* the requests that are answered without a REGISTER or PUBLISH being
\* handled: the three queries, with a known and an unknown argument and
\* with none, and lines whose first token is no command
QueryRequests ==
  {<<"FETCH", f>> : f \in Filenames \cup {"none.txt"}}
    \cup {<<"DISCOVER_CLIENT", h>> : h \in Hostnames \cup {"ghost"}}
    \cup {<<"LIST_CLIENTS">>, <<"DISCOVER_CLIENT">>, <<"HELLO">>,
          <<"register", HostPool[1], "9001">>, <<"FETCHALL", "a.txt">>}

\* the two of them the connections send: a query and an unknown command
QuerySample == {<<"FETCH", "a.txt">>, <<"HELLO">>}

\* server.start: the acceptor loop accepts the connections one after the
\* other (c is the c-th accepted connection) and starts a worker for each
Accept(c) ==
  /\ pc[c] = "init"
  /\ \A d \in Conns : d < c => pc[d] # "init"
  /\ pc' = [pc EXCEPT ![c] = "recv"]
  /\ hostname' = [hostname EXCEPT ![c] = None]
  /\ UNCHANGED <<clients, clientKeys, files, fileKeys, nreq>>
  /\ UNCHANGED <<threadVars, peerVars, clientVars>>

\* recv returned a REGISTER or PUBLISH message on connection c
Received(c) ==
  /\ pc[c] = "recv"
  /\ nreq < MaxReqs
  /\ nreq' = nreq + 1

\* the local variable hostname of the worker of connection c when the
\* request parts raises: REGISTER assigns parts[1] before int(parts[2])
\* is evaluated, every other request raises before any assignment
LocalHostname(c, parts) ==
  IF parts[1] = "REGISTER" /\ Len(parts) >= 2 THEN parts[2] ELSE hostname[c]

\* the server after `if hostname: self.handle_disconnect(hostname)`
Dropped(self, hn) == IF hn # None THEN handle_disconnect(self, hn) ELSE self

\* finally: `if hostname: self.handle_disconnect(hostname)`, with hn the
\* value of the local variable hostname; client_socket.close(), worker ends
Finally(c, hn) ==
  /\ Becomes(Dropped(Self, hn))
  /\ pc' = [pc EXCEPT ![c] = "closed"]
  /\ hostname' = [hostname EXCEPT ![c] = None]

\* REGISTER hostname port: the response is sent and the loop goes on, or
\* int(parts[2]) raises ValueError after hostname = parts[1]
Register(c, h, tok) ==
  LET parts == <<"REGISTER", h, tok>> IN
  /\ Received(c)
  /\ IF ~Dispatch(Self, c, parts).raised
     THEN /\ hostname' = [hostname EXCEPT ![c] = parts[2]]
          /\ Becomes(Dispatch(Self, c, parts).self)
          /\ UNCHANGED pc
     ELSE Finally(c, LocalHostname(c, parts))
  /\ UNCHANGED <<threadVars, peerVars, clientVars>>

\* PUBLISH filename hostname
Publish(c, f, h) ==
  LET parts == <<"PUBLISH", f, h>> IN
  /\ Received(c)
  /\ hostname' = [hostname EXCEPT ![c] = parts[3]]
  /\ Becomes(Dispatch(Self, c, parts).self)
  /\ UNCHANGED pc
  /\ UNCHANGED <<threadVars, peerVars, clientVars>>

\* FETCH filename, LIST_CLIENTS, DISCOVER_CLIENT [hostname] and any
\* unknown command: a response is sent and the loop goes on
Query(c, parts) ==
  /\ pc[c] = "recv"
  /\ ~Dispatch(Self, c, parts).raised
  /\ Becomes(Dispatch(Self, c, parts).self)
  /\ UNCHANGED <<pc, hostname, nreq>>
  /\ UNCHANGED <<threadVars, peerVars, clientVars>>

\* a request with a missing field: parts[i] raises IndexError; for
\* `REGISTER hostname` the local variable hostname is already assigned
MissingField(c, parts) ==
  /\ pc[c] = "recv"
  /\ Finally(c, LocalHostname(c, parts))
  /\ UNCHANGED nreq
  /\ UNCHANGED <<threadVars, peerVars, clientVars>>

\* recv returns no data (the peer closed the connection) or raises
Disconnect(c) ==
  /\ pc[c] = "recv"
  /\ Finally(c, hostname[c])
  /\ UNCHANGED nreq
  /\ UNCHANGED <<threadVars, peerVars, clientVars>>

Next ==
  \/ \E c \in Conns, h \in Hostnames, tok \in PortTokens \cup {"x"} : Register(c, h, tok)
  \/ \E c \in Conns, f \in Filenames, h \in Hostnames : Publish(c, f, h)
  \/ \E c \in Conns : Accept(c)
  \/ \E c \in Conns, parts \in QuerySample : Query(c, parts)
  \/ \E c \in Conns :
       \E parts \in {<<"PUBLISH">>} \cup {<<"REGISTER", h>> : h \in Hostnames} :
         MissingField(c, parts)
  \/ \E c \in Conns : Disconnect(c)

Spec == Init /\ [][Next]_vars

\* ------------------------------ handle_register, statement by statement
\* The workers of two connections inside handle_register at the same time:
\* each statement of the handler is a step, and `with self.lock:` is the
\* only thing that orders the steps of different workers.

\* `with self.lock:` without mutual exclusion
LockFree_always(l) == TRUE

\* `with self.lock:` can be entered
LockFree(l) == l = {}

\* recv returned `REGISTER h port`; hostname = parts[1], int(parts[2]),
\* and the worker calls handle_register
RegisterCall(c, h, tok) ==
  LET parts == <<"REGISTER", h, tok>> IN
  /\ Received(c)
  /\ hostname' = [hostname EXCEPT ![c] = parts[2]]
  /\ pc' = [pc EXCEPT ![c] = "call"]
  /\ call' = [call EXCEPT ![c] =
       [hostname |-> parts[2], ip |-> client_address(c), port |-> int(parts[3]),
        response |-> None]]
  /\ UNCHANGED <<clients, clientKeys, files, fileKeys, lock, sent>>
  /\ UNCHANGED <<peerVars, clientVars>>

\* `with self.lock:` of handle_register is entered
LockAcquire(c) ==
  /\ pc[c] = "call"
  /\ LockFree(lock)
  /\ lock' = lock \cup {c}
  /\ pc' = [pc EXCEPT ![c] = "check"]
  /\ UNCHANGED <<clients, clientKeys, files, fileKeys, hostname, nreq, call, sent>>
  /\ UNCHANGED <<peerVars, clientVars>>

\* `if hostname in self.clients: return "REGISTER_FAIL ..."`
RegisterCheck(c) ==
  /\ pc[c] = "check"
  /\ IF RegisterExists(Self, call[c].hostname)
     THEN /\ call' = [call EXCEPT ![c].response = "REGISTER_FAIL"]
          /\ lock' = lock \ {c}
          /\ pc' = [pc EXCEPT ![c] = "send"]
     ELSE /\ pc' = [pc EXCEPT ![c] = "store"]
          /\ UNCHANGED <<call, lock>>
  /\ UNCHANGED <<clients, clientKeys, files, fileKeys, hostname, nreq, sent>>
  /\ UNCHANGED <<peerVars, clientVars>>

\* `self.clients[hostname] = {...}`, the lock is left, `return "REGISTER_SUCCESS"`
RegisterStore(c) ==
  /\ pc[c] = "store"
  /\ Becomes(StoreRecord(Self, call[c].hostname, call[c].ip, call[c].port, c))
  /\ call' = [call EXCEPT ![c].response = "REGISTER_SUCCESS"]
  /\ lock' = lock \ {c}
  /\ pc' = [pc EXCEPT ![c] = "send"]
  /\ UNCHANGED <<hostname, nreq, sent>>
  /\ UNCHANGED <<peerVars, clientVars>>

\* client_socket.send(response); the loop goes back to recv
RegisterSend(c) ==
  /\ pc[c] = "send"
  /\ sent' = sent \cup {[conn |-> c, hostname |-> call[c].hostname,
                         port |-> call[c].port, tag |-> call[c].response]}
  /\ call' = [call EXCEPT ![c] = None]
  /\ pc' = [pc EXCEPT ![c] = "recv"]
  /\ UNCHANGED <<clients, clientKeys, files, fileKeys, hostname, nreq, lock>>
  /\ UNCHANGED <<peerVars, clientVars>>

\* recv returns no data; finally: handle_disconnect(hostname) enters
\* `with self.lock:`, sets the flag and leaves it
DisconnectLocked(c) ==
  /\ pc[c] = "recv"
  /\ LockFree(lock)
  /\ Finally(c, hostname[c])
  /\ UNCHANGED <<nreq, lock, call, sent>>
  /\ UNCHANGED <<peerVars, clientVars>>

NextThreads ==
  \/ \E c \in Conns : Accept(c)
  \/ \E c \in Conns, h \in Hostnames, tok \in PortTokens : RegisterCall(c, h, tok)
  \/ \E c \in Conns : LockAcquire(c)
  \/ \E c \in Conns : RegisterCheck(c)
  \/ \E c \in Conns : RegisterStore(c)
  \/ \E c \in Conns : RegisterSend(c)
  \/ \E c \in Conns : DisconnectLocked(c)

SpecThreads == Init /\ [][NextThreads]_<<vars, threadVars, peerVars>>

\* ============================================================== a peer
\* One peer (src/client.py): its command thread running fetch_file and
\* download_from_peer, and a worker of its P2P listener running
\* handle_peer_download, both on the same shared folder. The tracker and
\* the peers at the other end of the connections are the environment: they
\* may send any message and close at any time.

\* ------------------------------------------------------------- bounds
MaxSize == 2
BUFFER_SIZE == 2
NumPeers == 2

\* ----------------------------------------------------- str operations
Whitespace == {" ", "\n", "\t", "\r"}
Digits == {"0", "1", "2", "3", "4", "5", "6", "7", "8", "9"}

\* s.startswith(prefix)
startswith(s, prefix) ==
  Len(s) >= Len(prefix) /\ SubSeq(s, 1, Len(prefix)) = prefix

RECURSIVE lstrip(_)
lstrip(s) ==
  IF Len(s) > 0 /\ SubSeq(s, 1, 1) \in Whitespace
  THEN lstrip(SubSeq(s, 2, Len(s))) ELSE s

RECURSIVE rstrip(_)
rstrip(s) ==
  IF Len(s) > 0 /\ SubSeq(s, Len(s), Len(s)) \in Whitespace
  THEN rstrip(SubSeq(s, 1, Len(s) - 1)) ELSE s

\* s.strip()
strip(s) == rstrip(lstrip(s))

\* the pieces of s from position i on, cut at every character of seps;
\* cur is the piece begun before i
RECURSIVE SplitRec(_, _, _, _)
SplitRec(s, i, cur, seps) ==
  IF i > Len(s) THEN <<cur>>
  ELSE IF SubSeq(s, i, i) \in seps
       THEN <<cur>> \o SplitRec(s, i + 1, "", seps)
       ELSE SplitRec(s, i + 1, cur \o SubSeq(s, i, i), seps)

\* s.split(): the whitespace-separated words of s
split(s) == SelectSeq(SplitRec(s, 1, "", Whitespace), LAMBDA w : w # "")

\* s.split(sep)
split_sep(s, sep) == SplitRec(s, 1, "", {sep})

\* int(tok) succeeds: tok is a decimal numeral
IsDecimal(tok) ==
  Len(tok) > 0 /\ \A i \in 1 .. Len(tok) : SubSeq(tok, i, i) \in Digits

\* int(tok) for a decimal numeral
RECURSIVE ParseInt(_)
ParseInt(tok) ==
  IF Len(tok) = 0 THEN 0
  ELSE 10 * ParseInt(SubSeq(tok, 1, Len(tok) - 1))
       + (CHOOSE d \in 0 .. 9 : ToString(d) = SubSeq(tok, Len(tok), Len(tok)))

\* " ".join(words)
RECURSIVE join(_)
join(words) ==
  IF Len(words) = 0 THEN ""
  ELSE IF Len(words) = 1 THEN words[1]
  ELSE words[1] \o " " \o join(Tail(words))

\* ------------------------------------------------------------- inputs
\* the file fetched and served
SharedName == "a.txt"

\* the entry of a FETCH_OK reply for the k-th peer of the pool, as
\* handle_fetch formats it; the first peer is the owner
Candidate(k) ==
  client_address(k) \o ":" \o ToString(9001) \o ":" \o HostPool[k] \o ":"
  \o (IF k = 1 THEN "1" ELSE "0")

\* the lists of distinct candidates
CandidateLists ==
  {l \in UNION {[1 .. n -> 1 .. NumPeers] : n \in 1 .. NumPeers} :
     \A i, j \in 1 .. Len(l) : i # j => l[i] # l[j]}

\* what the registry connection can deliver in answer to FETCH: the
\* responses of the tracker and "" when the connection is closed
TrackerReplies ==
  {"FETCH_NOT_FOUND", "UNKNOWN_COMMAND", "FETCH_OK", ""}
  \cup {"FETCH_OK " \o join([i \in 1 .. Len(l) |-> Candidate(l[i])]) : l \in CandidateLists}

\* what a transfer connection can deliver in answer to DOWNLOAD
PeerReplies ==
  {"FILESIZE " \o ToString(n) : n \in 0 .. MaxSize}
  \cup {"ERROR File not found", "FILESIZE", "FILESIZE x", "HELLO", ""}

\* what a transfer connection can deliver as a request
PeerRequests ==
  {"DOWNLOAD " \o SharedName, "DOWNLOAD " \o SharedName \o "\n", "DOWNLOAD b.txt",
   "DOWNLOAD", "GET " \o SharedName, ""}

\* what a transfer connection can deliver in answer to FILESIZE
PeerAcks ==
  {"BEGIN_DOWNLOAD", "BEGIN_DOWNLOAD\n", "BEGIN_DOWNLOAD now", "BEGIN", "CANCEL", ""}

\* ------------------------------------- fetch_file, download_from_peer
\* `received == filesize` with a short read taken for a full one
DownloadComplete_short(received, filesize) == received <= filesize

\* `received == filesize`: what download_from_peer returns after its loop
DownloadComplete(received, filesize) == received = filesize

\* fetch_file going on with the next peer_info after a download succeeded
Returned_continue(f, ok) ==
  IF f.mode = "fetch_file"
  THEN [f EXCEPT !.ok = IF ok THEN "true" ELSE "false", !.pc = "loop", !.i = @ + 1]
  ELSE [f EXCEPT !.ok = IF ok THEN "true" ELSE "false", !.pc = "done",
                 !.result = IF ok THEN "success" ELSE "failed"]

\* fetch_file giving up after the first download that failed
Returned_giveup(f, ok) ==
  [f EXCEPT !.ok = IF ok THEN "true" ELSE "false", !.pc = "done",
            !.result = IF ok THEN "success" ELSE "failed"]

\* fetch_file trying the same peer_info again after a download failed
Returned_retry(f, ok) ==
  IF f.mode = "fetch_file"
  THEN IF ok THEN [f EXCEPT !.ok = "true", !.pc = "done", !.result = "success"]
       ELSE [f EXCEPT !.ok = "false", !.pc = "loop"]
  ELSE [f EXCEPT !.ok = IF ok THEN "true" ELSE "false", !.pc = "done",
                 !.result = IF ok THEN "success" ELSE "failed"]

\* fetch_file publishing the file itself after a download succeeded
Returned_publish(f, ok) ==
  IF f.mode = "fetch_file"
  THEN IF ok THEN [f EXCEPT !.ok = "true", !.pc = "done", !.result = "success",
                            !.requests = Append(@, "PUBLISH " \o SharedName \o " " \o HostPool[1])]
       ELSE [f EXCEPT !.ok = "false", !.pc = "loop", !.i = @ + 1]
  ELSE [f EXCEPT !.ok = IF ok THEN "true" ELSE "false", !.pc = "done",
                 !.result = IF ok THEN "success" ELSE "failed"]

\* the command thread after download_from_peer (or _with_progress)
\* returned ok to its caller: fetch_file returns on True and goes on with
\* the next peer_info on False
Returned(f, ok) ==
  IF f.mode = "fetch_file"
  THEN IF ok THEN [f EXCEPT !.ok = "true", !.pc = "done", !.result = "success"]
       ELSE [f EXCEPT !.ok = "false", !.pc = "loop", !.i = @ + 1]
  ELSE [f EXCEPT !.ok = IF ok THEN "true" ELSE "false", !.pc = "done",
                 !.result = IF ok THEN "success" ELSE "failed"]

\* fetch_file asking the tracker again instead of returning
Stopped_requery(f, result) == [f EXCEPT !.pc = "idle", !.result = result]

\* fetch_file returns without a download
Stopped(f, result) == [f EXCEPT !.pc = "done", !.result = result]

\* a file is put into the shared folder before the peer fetches anything
CopyToShared(n) ==
  /\ fetcher.pc = "idle"
  /\ disk = NoFile
  /\ disk' = n
  /\ UNCHANGED <<fetcher, responder>>
  /\ UNCHANGED <<vars, threadVars, clientVars>>

\* fetch_file: `FETCH filename` is sent to the tracker
FetchSend ==
  /\ fetcher.pc = "idle"
  /\ fetcher' = [fetcher EXCEPT !.pc = "fetch_sent", !.mode = "fetch_file",
                                !.nFetch = @ + 1,
                                !.requests = Append(@, "FETCH " \o SharedName)]
  /\ UNCHANGED <<disk, responder>>
  /\ UNCHANGED <<vars, threadVars, clientVars>>

\* fetch_file from the response of the tracker to the loop over peers
ParseFetchReply(f, data) ==
  LET response == strip(data)
      parts == split(response) IN
  IF startswith(response, "FETCH_NOT_FOUND") THEN Stopped(f, "not_available")
  ELSE IF ~startswith(response, "FETCH_OK") THEN Stopped(f, "error")
  ELSE IF Len(parts) < 2 THEN Stopped(f, "no_peers")
  ELSE [f EXCEPT !.pc = "loop", !.peers = Tail(parts), !.i = 1]

\* fetch_file: recv on the registry connection returns data
FetchReply(data) ==
  /\ fetcher.pc = "fetch_sent"
  /\ fetcher' = ParseFetchReply(fetcher, data)
  /\ UNCHANGED <<disk, responder>>
  /\ UNCHANGED <<vars, threadVars, clientVars>>

\* self.hostname of the peer
MyHostname == HostPool[1]

\* self._log(line) inside download_from_peer; download_from_peer_with_progress
\* logs nothing but the exception it catches
Logged(f, line) ==
  IF f.mode = "fetch_file" \/ line = "Error downloading from peer"
  THEN [f EXCEPT !.log = Append(@, line)] ELSE f

\* the log line after the receive loop, written whatever was received
CompletionLog_always(received, filesize) ==
  "Download complete: " \o ToString(received) \o " bytes"

\* the log line after the receive loop
CompletionLog(received, filesize) ==
  IF received = filesize
  THEN "Download complete: " \o ToString(received) \o " bytes"
  ELSE "Download incomplete: " \o ToString(received) \o "/" \o ToString(filesize)
       \o " bytes"

\* progress_cb called without the try/except around it
CallProgress_unguarded(cb) == IF cb = "raises" THEN "raise" ELSE "continue"

\* `if progress_cb: try: progress_cb(received, filesize) except Exception: pass`
CallProgress(cb) == "continue"

\* the progress callback of a call: absent, returning, or raising
Callbacks == {"none", "returns", "raises"}

\* socket(), connect and send of the DOWNLOAD request; connect raises when
\* nothing listens at the address
Dial(f, connected) ==
  LET g == [f EXCEPT !.filesize = 0, !.received = 0, !.eof = FALSE, !.ok = "none",
                     !.out = <<>>, !.log = <<>>, !.cbRaised = FALSE] IN
  IF connected
  THEN [g EXCEPT !.pc = "size_wait", !.out = <<"DOWNLOAD " \o SharedName>>]
  ELSE Returned(Logged(g, "Error downloading from peer"), FALSE)

\* BEGIN_DOWNLOAD sent whatever the answer to DOWNLOAD is
ReceiveSize_eager(f, data) ==
  LET response == strip(data)
      parts == split(response)
      g == [f EXCEPT !.out = Append(@, "BEGIN_DOWNLOAD")] IN
  IF ~startswith(response, "FILESIZE") \/ Len(parts) < 2 \/ ~IsDecimal(parts[2])
  THEN Returned(g, FALSE)
  ELSE [g EXCEPT !.filesize = ParseInt(parts[2]), !.pc = "open"]

\* from the answer to DOWNLOAD to the BEGIN_DOWNLOAD sent
ReceiveSize(f, data) ==
  LET response == strip(data)
      parts == split(response) IN
  IF f.mode = "fetch_file" /\ startswith(response, "ERROR")
  THEN Returned(Logged(f, "Peer error: " \o response), FALSE)
  ELSE IF ~startswith(response, "FILESIZE")
  THEN Returned(Logged(f, "Unexpected response: " \o response), FALSE)
  ELSE IF Len(parts) < 2 \/ ~IsDecimal(parts[2])
  THEN Returned(Logged(f, "Error downloading from peer"), FALSE)
  ELSE [Logged(f, "File size: " \o parts[2] \o " bytes") EXCEPT
          !.filesize = ParseInt(parts[2]), !.pc = "open",
          !.out = Append(@, "BEGIN_DOWNLOAD")]

\* after the receive loop: the log line and the value returned
Finish(f) ==
  Returned(Logged(f, CompletionLog(f.received, f.filesize)),
           DownloadComplete(f.received, f.filesize))

\* one turn of the receive loop with k bytes received (none: the
\* connection is closed) and the progress callback cb
ReceiveData(f, k, cb) ==
  IF k = 0 THEN Finish([f EXCEPT !.eof = TRUE])
  ELSE LET g == [f EXCEPT !.received = @ + k] IN
       IF f.mode = "with_progress" /\ cb # "none"
       THEN IF CallProgress(cb) = "raise"
            THEN Returned(Logged(g, "Error downloading from peer"), FALSE)
            ELSE [g EXCEPT !.cbRaised = @ \/ cb = "raises"]
       ELSE g

\* fetch_file: the head of `for peer_info in peers` and the call of
\* download_from_peer up to the DOWNLOAD request; connect succeeds or raises
TryPeer(connected) ==
  /\ fetcher.pc = "loop"
  /\ fetcher' =
       IF fetcher.i > Len(fetcher.peers) THEN Stopped(fetcher, "failed")
       ELSE LET peer_parts == split_sep(fetcher.peers[fetcher.i], ":") IN
            IF Len(peer_parts) < 3 THEN [fetcher EXCEPT !.i = @ + 1]
            ELSE IF ~IsDecimal(peer_parts[2]) THEN Stopped(fetcher, "error")
            ELSE Dial([fetcher EXCEPT !.attempts = Append(@, fetcher.i),
                                      !.before = disk], connected)
  /\ UNCHANGED <<disk, responder>>
  /\ UNCHANGED <<vars, threadVars, clientVars>>

\* download_from_peer_with_progress called on the k-th peer, up to the
\* DOWNLOAD request
ProgressConnect(k, connected) ==
  /\ fetcher.pc = "idle"
  /\ fetcher' = Dial([fetcher EXCEPT !.mode = "with_progress",
                                     !.peers = <<Candidate(k)>>,
                                     !.i = 1, !.attempts = <<1>>,
                                     !.before = disk], connected)
  /\ UNCHANGED <<disk, responder>>
  /\ UNCHANGED <<vars, threadVars, clientVars>>

\* recv on the transfer connection returns the answer to DOWNLOAD; on
\* `FILESIZE n` BEGIN_DOWNLOAD is sent
SizeReply(data) ==
  /\ fetcher.pc = "size_wait"
  /\ fetcher' = ReceiveSize(fetcher, data)
  /\ UNCHANGED <<disk, responder>>
  /\ UNCHANGED <<vars, threadVars, clientVars>>

\* `with open(filepath, 'wb') as f`: the local file is created or truncated
OpenFile ==
  /\ fetcher.pc = "open"
  /\ disk' = 0
  /\ fetcher' = [fetcher EXCEPT !.pc = "recv", !.received = 0]
  /\ UNCHANGED responder
  /\ UNCHANGED <<vars, threadVars, clientVars>>

\* one turn of `while received < filesize`: recv returns k bytes, none
\* when the connection is closed; f.write(data), then the callback
RecvData(k, cb) ==
  /\ fetcher.pc = "recv"
  /\ fetcher.received < fetcher.filesize
  /\ fetcher.mode = "fetch_file" => cb = "none"
  /\ fetcher' = ReceiveData(fetcher, k, cb)
  /\ disk' = disk + k
  /\ UNCHANGED responder
  /\ UNCHANGED <<vars, threadVars, clientVars>>

\* the loop ends with received >= filesize; `received == filesize`
DownloadDone ==
  /\ fetcher.pc = "recv"
  /\ fetcher.received >= fetcher.filesize
  /\ fetcher' = Finish(fetcher)
  /\ UNCHANGED <<disk, responder>>
  /\ UNCHANGED <<vars, threadVars, clientVars>>

\* publish_file called by the user or the front end once fetch_file or
\* the download has returned: `PUBLISH shared_filename hostname` is sent
PublishCall ==
  /\ fetcher.pc = "done"
  /\ disk # NoFile
  /\ \A j \in 1 .. Len(fetcher.requests) : ~startswith(fetcher.requests[j], "PUBLISH")
  /\ fetcher' = [fetcher EXCEPT
       !.requests = Append(@, "PUBLISH " \o SharedName \o " " \o MyHostname)]
  /\ UNCHANGED <<disk, responder>>
  /\ UNCHANGED <<vars, threadVars, clientVars>>

\* ------------------------------------- p2p_server, handle_peer_download
\* the acknowledgement compared by its first characters only
AckAccepted_prefix(ack) == startswith(ack, "BEGIN")

\* `if ack != "BEGIN_DOWNLOAD": return`, negated
AckAccepted(ack) == ack = "BEGIN_DOWNLOAD"

\* handle_peer_download returns; finally: peer_socket.close()
Closed(r, error) == [r EXCEPT !.pc = "closed", !.error = error]

\* f.read(BUFFER_SIZE) at position pos of a file of the given size
ReadLen(size, pos) ==
  IF size - pos > BUFFER_SIZE THEN BUFFER_SIZE
  ELSE IF size > pos THEN size - pos ELSE 0

\* p2p_server: a peer connection is accepted and a worker started
PeerAccept ==
  /\ responder.pc = "listen"
  /\ responder' = [responder EXCEPT !.pc = "request"]
  /\ UNCHANGED <<disk, fetcher>>
  /\ UNCHANGED <<vars, threadVars, clientVars>>

\* the existence test skipped
FileExists_any(filename, folder) == TRUE

\* os.path.exists(filepath) in a shared folder holding at most SharedName
FileExists(filename, folder) == filename = SharedName /\ folder # NoFile

\* the worker after the request: ERROR is sent and the handler returns,
\* or `FILESIZE n` is sent
ServeRequest(r, data, folder) ==
  LET request == strip(data)
      parts == split(request) IN
  IF ~startswith(request, "DOWNLOAD")
  THEN Closed([r EXCEPT !.reply = "ERROR Invalid request"], FALSE)
  ELSE IF Len(parts) < 2
  THEN Closed([r EXCEPT !.reply = "ERROR No filename specified"], FALSE)
  ELSE IF ~FileExists(parts[2], folder)
  THEN Closed([r EXCEPT !.reply = "ERROR File not found"], FALSE)
  ELSE [r EXCEPT !.filesize = folder,
                 !.reply = "FILESIZE " \o ToString(folder),
                 !.pc = "ack"]

\* recv returns the request; ERROR or `FILESIZE n` is sent
PeerRequest(data) ==
  /\ responder.pc = "request"
  /\ responder' = ServeRequest(responder, data, disk)
  /\ UNCHANGED <<disk, fetcher>>
  /\ UNCHANGED <<vars, threadVars, clientVars>>

\* recv returns the answer to FILESIZE; the file is opened for reading
PeerAck(data) ==
  /\ responder.pc = "ack"
  /\ LET ack == strip(data) IN
     responder' =
       IF ~AckAccepted(ack) THEN Closed([responder EXCEPT !.ack = data], FALSE)
       ELSE [responder EXCEPT !.ack = data, !.pc = "stream", !.pos = 0, !.sent = 0]
  /\ UNCHANGED <<disk, fetcher>>
  /\ UNCHANGED <<vars, threadVars, clientVars>>

\* one turn of the sending loop: f.read, and either the end of the file
\* is reached, or send raises because the peer is gone, or the data is sent
StreamChunk(gone) ==
  /\ responder.pc = "stream"
  /\ LET n == ReadLen(disk, responder.pos) IN
     responder' =
       IF n = 0 THEN Closed(responder, FALSE)
       ELSE IF gone THEN Closed(responder, TRUE)
       ELSE [responder EXCEPT !.sent = @ + n, !.pos = @ + n]
  /\ UNCHANGED <<disk, fetcher>>
  /\ UNCHANGED <<vars, threadVars, clientVars>>

NextPeer ==
  \/ \E n \in 0 .. MaxSize : CopyToShared(n)
  \/ FetchSend
  \/ \E data \in TrackerReplies : FetchReply(data)
  \/ \E connected \in BOOLEAN : TryPeer(connected)
  \/ \E k \in 1 .. NumPeers, connected \in BOOLEAN : ProgressConnect(k, connected)
  \/ \E data \in PeerReplies : SizeReply(data)
  \/ OpenFile
  \/ \E k \in 0 .. BUFFER_SIZE, cb \in Callbacks : RecvData(k, cb)
  \/ DownloadDone
  \/ PublishCall
  \/ PeerAccept
  \/ \E data \in PeerRequests : PeerRequest(data)
  \/ \E data \in PeerAcks : PeerAck(data)
  \/ \E gone \in BOOLEAN : StreamChunk(gone)

SpecPeer == Init /\ [][NextPeer]_<<vars, threadVars, peerVars>>

\* the steps of the command thread that wait for nothing but the data or
\* the end of a connection it has opened
FetchRun ==
  \/ \E data \in TrackerReplies : FetchReply(data)
  \/ \E connected \in BOOLEAN : TryPeer(connected)
  \/ \E data \in PeerReplies : SizeReply(data)
  \/ OpenFile
  \/ \E k \in 0 .. BUFFER_SIZE, cb \in Callbacks : RecvData(k, cb)
  \/ DownloadDone

\* the requesting side alone: fetch_file, or one download with progress
NextFetch ==
  \/ FetchSend
  \/ \E k \in 1 .. NumPeers, connected \in BOOLEAN : ProgressConnect(k, connected)
  \/ \E data \in TrackerReplies : FetchReply(data)
  \/ \E connected \in BOOLEAN : TryPeer(connected)
  \/ \E data \in PeerReplies : SizeReply(data)
  \/ OpenFile
  \/ \E k \in 0 .. BUFFER_SIZE, cb \in Callbacks : RecvData(k, cb)
  \/ DownloadDone

\* The requesting side when every connection it has opened eventually
\* delivers data or closes, so that no recv and no connect blocks for ever,
\* and the command thread is eventually run. Nothing makes the user call
\* fetch_file or a download.
LivePeer ==
  /\ Init /\ [][NextFetch]_<<vars, threadVars, peerVars>>
  /\ WF_peerVars(FetchRun)

\* ------------------------- start, connect_to_server, auto_publish_files
\* A peer from its construction to its command loop. The tracker is the
\* remote end of the registry connection: it answers REGISTER and PUBLISH
\* with a success or a failure, and lists the peer as a holder of the
\* files whose PUBLISH it answered with PUBLISH_SUCCESS.

\* self.p2p_port
MyPort == CHOOSE p \in PortNumbers : TRUE

\* `t in s` for strings
Contains(s, t) ==
  \E j \in 1 .. Len(s) - Len(t) + 1 : SubSeq(s, j, j + Len(t) - 1) = t

\* the entries a share directory can have: regular files and a directory
DirEntries ==
  {[name |-> "a.txt", isfile |-> TRUE], [name |-> "b.txt", isfile |-> TRUE],
   [name |-> "sub", isfile |-> FALSE]}

\* os.listdir(self.shared_folder): the entries in any order, none twice
Listings ==
  {<<>>} \cup {<<e>> : e \in DirEntries}
    \cup {<<d, e>> : d, e \in DirEntries}
    \cup {<<c, d, e>> : c, d, e \in DirEntries}

\* the tracker's answers to REGISTER; none when it closed the connection
RegisterReplies == {"REGISTER_SUCCESS", "REGISTER_FAIL Hostname already exists", ""}

\* the tracker's answers to PUBLISH
PublishReplies == {"PUBLISH_SUCCESS", "PUBLISH_FAIL Client not registered", ""}

\* auto_publish_files giving up at the first PUBLISH that is refused
AfterPublishReply_fatal(st, response) ==
  IF startswith(response, "PUBLISH_SUCCESS")
  THEN [st EXCEPT !.pc = "publish", !.i = @ + 1,
                  !.listed = @ \cup {st.dir[st.i].name}]
  ELSE [st EXCEPT !.pc = "returned", !.result = "false",
                  !.failed = @ \cup {st.dir[st.i].name}]

\* auto_publish_files after the response to the PUBLISH of files[i]: it is
\* logged as published or as failed, and the loop goes on
AfterPublishReply(st, response) ==
  IF startswith(response, "PUBLISH_SUCCESS")
  THEN [st EXCEPT !.pc = "publish", !.i = @ + 1,
                  !.listed = @ \cup {st.dir[st.i].name}]
  ELSE [st EXCEPT !.pc = "publish", !.i = @ + 1,
                  !.failed = @ \cup {st.dir[st.i].name}]

\* the share directory as the peer finds it when it starts
ShareDir(dir) ==
  /\ startup.pc = "new"
  /\ \A i, j \in 1 .. Len(dir) : dir[i].name = dir[j].name => i = j
  /\ startup' = [startup EXCEPT !.pc = "init", !.dir = dir]
  /\ UNCHANGED <<frontend, xfer, concVars>>
  /\ UNCHANGED <<vars, threadVars, peerVars>>

\* connect_to_server: connect and send `REGISTER hostname p2p_port`;
\* an exception makes it return False
SendRegister(connected) ==
  /\ startup.pc = "init"
  /\ startup' =
       IF connected
       THEN [startup EXCEPT !.pc = "reg_wait",
               !.requests = Append(@, "REGISTER " \o MyHostname \o " " \o ToString(MyPort))]
       ELSE [startup EXCEPT !.pc = "returned", !.result = "false", !.broken = TRUE]
  /\ UNCHANGED <<frontend, xfer, concVars>>
  /\ UNCHANGED <<vars, threadVars, peerVars>>

\* connect_to_server: the response to REGISTER;
\* `if "REGISTER_SUCCESS" in response` starts auto_publish_files
RegisterReply(response) ==
  /\ startup.pc = "reg_wait"
  /\ startup' =
       IF Contains(response, "REGISTER_SUCCESS")
       THEN [startup EXCEPT !.pc = "publish", !.registered = TRUE, !.i = 1]
       ELSE [startup EXCEPT !.pc = "returned", !.result = "false"]
  /\ UNCHANGED <<frontend, xfer, concVars>>
  /\ UNCHANGED <<vars, threadVars, peerVars>>

\* auto_publish_files: the head of `for filename in files`; a directory
\* is passed over, `PUBLISH filename hostname` is sent for a regular file;
\* send raising ends the loop; after the loop connect_to_server returns True
PublishNext(raises) ==
  /\ startup.pc = "publish"
  /\ startup' =
       IF startup.i > Len(startup.dir)
       THEN [startup EXCEPT !.pc = "connected", !.result = "true"]
       ELSE IF ~startup.dir[startup.i].isfile THEN [startup EXCEPT !.i = @ + 1]
       ELSE IF raises
       THEN [startup EXCEPT !.pc = "connected", !.result = "true", !.broken = TRUE]
       ELSE [startup EXCEPT !.pc = "pub_wait",
               !.requests = Append(@, "PUBLISH " \o startup.dir[startup.i].name
                                        \o " " \o MyHostname)]
  /\ UNCHANGED <<frontend, xfer, concVars>>
  /\ UNCHANGED <<vars, threadVars, peerVars>>

\* auto_publish_files: recv returns the response to the PUBLISH, or raises
PublishReply(response, raises) ==
  /\ startup.pc = "pub_wait"
  /\ startup' =
       IF raises
       THEN [startup EXCEPT !.pc = "connected", !.result = "true", !.broken = TRUE]
       ELSE AfterPublishReply(startup, response)
  /\ UNCHANGED <<frontend, xfer, concVars>>
  /\ UNCHANGED <<vars, threadVars, peerVars>>

\* start / connect_and_start after connect_to_server returned True:
\* start_p2p_listener starts the thread that runs p2p_server
StartListener ==
  /\ startup.pc = "connected"
  /\ startup' = [startup EXCEPT !.pc = "command", !.listener = "started"]
  /\ UNCHANGED <<frontend, xfer, concVars>>
  /\ UNCHANGED <<vars, threadVars, peerVars>>

\* p2p_server on its thread: bind and listen, or an exception that is
\* logged and ends the thread
Bind(ok) ==
  /\ startup.listener = "started"
  /\ startup' = [startup EXCEPT !.listener = IF ok THEN "listening" ELSE "failed"]
  /\ UNCHANGED <<frontend, xfer, concVars>>
  /\ UNCHANGED <<vars, threadVars, peerVars>>

NextStart ==
  \/ \E dir \in Listings : ShareDir(dir)
  \/ \E connected \in BOOLEAN : SendRegister(connected)
  \/ \E response \in RegisterReplies : RegisterReply(response)
  \/ \E raises \in BOOLEAN : PublishNext(raises)
  \/ \E response \in PublishReplies, raises \in BOOLEAN : PublishReply(response, raises)
  \/ StartListener
  \/ \E ok \in BOOLEAN : Bind(ok)

SpecStart == Init /\ [][NextStart]_<<vars, threadVars, peerVars, clientVars>>

\* --------- publish_file, fetch_peers, get_client_list, get_client_files
\* The front end runs every registry operation as a job on a thread of
\* its own; all of them send and recv on self.server_socket. The tracker's
\* worker for that connection answers the requests in the order received.

\* the most operations the front end starts
MaxOps == 3

\* the request lines of the four operations
FrontEndRequests ==
  {"PUBLISH " \o SharedName \o " " \o MyHostname, "FETCH " \o SharedName,
   "LIST_CLIENTS", "DISCOVER_CLIENT " \o HostPool[2]}

\* the first word of the tracker's response to a request
Answer(request) ==
  LET command == split(request)[1] IN
  IF command = "PUBLISH" THEN "PUBLISH_SUCCESS"
  ELSE IF command = "FETCH" THEN "FETCH_OK"
  ELSE IF command = "LIST_CLIENTS" THEN "LIST_CLIENTS_OK"
  ELSE "DISCOVER_CLIENT_OK"

\* a job thread enters its operation: self.server_socket.send(message)
JobSend(t, request) ==
  /\ frontend.job[t].pc \in {"idle", "done"}
  /\ frontend.n < MaxOps
  /\ frontend' = [frontend EXCEPT
       !.job[t] = [pc |-> "sent", request |-> request, reply |-> None],
       !.inbox = Append(@, request),
       !.n = @ + 1]
  /\ UNCHANGED <<startup, xfer, concVars>>
  /\ UNCHANGED <<vars, threadVars, peerVars>>

\* the tracker's worker handles the next request and sends its response
TrackerAnswer ==
  /\ frontend.inbox # <<>>
  /\ frontend' = [frontend EXCEPT
       !.inbox = Tail(@),
       !.replies = Append(@, Answer(Head(frontend.inbox)))]
  /\ UNCHANGED <<startup, xfer, concVars>>
  /\ UNCHANGED <<vars, threadVars, peerVars>>

\* self.server_socket.recv(BUFFER_SIZE) returns in a job thread: the
\* thread gets the next response on the connection
JobRecv(t) ==
  /\ frontend.job[t].pc = "sent"
  /\ frontend.replies # <<>>
  /\ frontend' = [frontend EXCEPT
       !.job[t].pc = "done",
       !.job[t].reply = Head(frontend.replies),
       !.replies = Tail(@)]
  /\ UNCHANGED <<startup, xfer, concVars>>
  /\ UNCHANGED <<vars, threadVars, peerVars>>

NextFrontEnd ==
  \/ \E t \in Threads, request \in FrontEndRequests : JobSend(t, request)
  \/ TrackerAnswer
  \/ \E t \in Threads : JobRecv(t)

SpecFrontEnd == Init /\ [][NextFrontEnd]_<<vars, threadVars, peerVars, clientVars>>

\* ------------- download_from_peer and handle_peer_download, byte by byte
\* One transfer of a.txt with the contents of the files: the responder's
\* file src, the bytes on the connection, the requester's file dst. The
\* responder is at the same time downloading a.txt itself, which rewrites
\* src; held collects what src has been since the responder took its size.

RECURSIVE Fill(_, _)
\* n bytes b
Fill(b, n) == IF n <= 0 THEN "" ELSE b \o Fill(b, n - 1)

\* the file the responder shares, of n bytes
Share(n) ==
  /\ xfer.rpc = "listen" /\ xfer.qpc = "idle" /\ xfer.wpc = "idle"
  /\ xfer.src = ""
  /\ xfer' = [xfer EXCEPT !.src = Fill("x", n)]
  /\ UNCHANGED <<startup, frontend, concVars>>
  /\ UNCHANGED <<vars, threadVars, peerVars>>

\* download_from_peer: connect and send `DOWNLOAD filename`
Ask ==
  /\ xfer.qpc = "idle" /\ xfer.rpc = "listen"
  /\ xfer.src # ""
  /\ xfer' = [xfer EXCEPT !.qpc = "size_wait", !.rpc = "request"]
  /\ UNCHANGED <<startup, frontend, concVars>>
  /\ UNCHANGED <<vars, threadVars, peerVars>>

\* handle_peer_download: the file exists; os.path.getsize, `FILESIZE n`
Serve ==
  /\ xfer.rpc = "request"
  /\ xfer' = [xfer EXCEPT !.rpc = "size_sent", !.filesize = Len(xfer.src),
                          !.held = {xfer.src}]
  /\ UNCHANGED <<startup, frontend, concVars>>
  /\ UNCHANGED <<vars, threadVars, peerVars>>

\* download_from_peer: `FILESIZE n` received, BEGIN_DOWNLOAD sent
GotSize ==
  /\ xfer.qpc = "size_wait" /\ xfer.rpc = "size_sent"
  /\ xfer' = [xfer EXCEPT !.qpc = "open", !.qsize = xfer.filesize]
  /\ UNCHANGED <<startup, frontend, concVars>>
  /\ UNCHANGED <<vars, threadVars, peerVars>>

\* download_from_peer: `with open(filepath, 'wb') as f`
DstOpen ==
  /\ xfer.qpc = "open"
  /\ xfer' = [xfer EXCEPT !.qpc = "recv", !.dst = "", !.received = 0]
  /\ UNCHANGED <<startup, frontend, concVars>>
  /\ UNCHANGED <<vars, threadVars, peerVars>>

\* handle_peer_download: BEGIN_DOWNLOAD received, `open(filepath, 'rb')`
SrcOpen ==
  /\ xfer.rpc = "size_sent" /\ xfer.qpc \notin {"idle", "size_wait"}
  /\ xfer' = [xfer EXCEPT !.rpc = "stream", !.pos = 0]
  /\ UNCHANGED <<startup, frontend, concVars>>
  /\ UNCHANGED <<vars, threadVars, peerVars>>

\* handle_peer_download: f.read(BUFFER_SIZE) at the handle's position in
\* the file as it is now; `if not data: break`, else send
SrcRead ==
  /\ xfer.rpc = "stream"
  /\ LET n == ReadLen(Len(xfer.src), xfer.pos) IN
     xfer' = IF n = 0 THEN [xfer EXCEPT !.rpc = "closed"]
             ELSE [xfer EXCEPT
                     !.wire = @ \o SubSeq(xfer.src, xfer.pos + 1, xfer.pos + n),
                     !.pos = @ + n]
  /\ UNCHANGED <<startup, frontend, concVars>>
  /\ UNCHANGED <<vars, threadVars, peerVars>>

\* download_from_peer: recv(BUFFER_SIZE) returns k of the bytes that have
\* arrived, or nothing once the responder has closed; f.write(data)
DstRecv(k) ==
  /\ xfer.qpc = "recv"
  /\ xfer.received < xfer.qsize
  /\ IF k = 0
     THEN /\ xfer.wire = "" /\ xfer.rpc = "closed"
          /\ xfer' = [xfer EXCEPT !.qpc = "done",
                 !.ok = IF DownloadComplete(xfer.received, xfer.qsize)
                        THEN "true" ELSE "false"]
     ELSE /\ k <= Len(xfer.wire)
          /\ xfer' = [xfer EXCEPT
                 !.dst = @ \o SubSeq(xfer.wire, 1, k),
                 !.wire = SubSeq(@, k + 1, Len(@)),
                 !.received = @ + k]
  /\ UNCHANGED <<startup, frontend, concVars>>
  /\ UNCHANGED <<vars, threadVars, peerVars>>

\* download_from_peer: the loop ends, `received == filesize` is returned
DstDone ==
  /\ xfer.qpc = "recv"
  /\ xfer.received >= xfer.qsize
  /\ xfer' = [xfer EXCEPT !.qpc = "done",
         !.ok = IF DownloadComplete(xfer.received, xfer.qsize) THEN "true" ELSE "false"]
  /\ UNCHANGED <<startup, frontend, concVars>>
  /\ UNCHANGED <<vars, threadVars, peerVars>>

\* src after a change, remembered while the transfer is being served
Holds(x, content) ==
  IF x.rpc \in {"size_sent", "stream"} THEN x.held \cup {content} ELSE x.held

\* the responder's own download_from_peer of a.txt: open(filepath, 'wb')
\* truncates the shared file
Rewrite ==
  /\ xfer.wpc = "idle"
  /\ xfer.src # ""
  /\ xfer' = [xfer EXCEPT !.wpc = "writing", !.src = "", !.held = Holds(xfer, "")]
  /\ UNCHANGED <<startup, frontend, concVars>>
  /\ UNCHANGED <<vars, threadVars, peerVars>>

\* the responder's own download: f.write of a chunk of k bytes
RewriteChunk(k) ==
  /\ xfer.wpc = "writing"
  /\ Len(xfer.src) + k <= MaxSize
  /\ xfer' = [xfer EXCEPT !.src = @ \o Fill("y", k),
                          !.held = Holds(xfer, xfer.src \o Fill("y", k))]
  /\ UNCHANGED <<startup, frontend, concVars>>
  /\ UNCHANGED <<vars, threadVars, peerVars>>

\* the responder's own download ends and the file is closed
RewriteDone ==
  /\ xfer.wpc = "writing"
  /\ xfer' = [xfer EXCEPT !.wpc = "done"]
  /\ UNCHANGED <<startup, frontend, concVars>>
  /\ UNCHANGED <<vars, threadVars, peerVars>>

NextTransfer ==
  \/ \E n \in 1 .. MaxSize : Share(n)
  \/ Ask
  \/ Serve
  \/ GotSize
  \/ DstOpen
  \/ SrcOpen
  \/ SrcRead
  \/ \E k \in 0 .. BUFFER_SIZE : DstRecv(k)
  \/ DstDone
  \/ Rewrite
  \/ \E k \in 1 .. BUFFER_SIZE : RewriteChunk(k)
  \/ RewriteDone

SpecTransfer == Init /\ [][NextTransfer]_<<vars, threadVars, peerVars, clientVars>>

\* ------- handle_publish, handle_fetch, handle_disconnect by statements
\* Three workers of the tracker, each taking a request and running its
\* handler statement by statement; `with self.lock:` is all that orders
\* the statements of different workers. A worker remembers whether the
\* file of its PUBLISH was new when the request arrived (fresh), and the
\* server as it was when it entered the lock (seen) and left it (left).

\* the most requests the workers take
MaxCalls == 3

\* the two hostnames of the requests: a publisher and a second one
OpHosts == {HostPool[1], HostPool[2]}

\* the requests whose handlers are taken apart
OpNames == {"PUBLISH", "FETCH", "DISCONNECT"}

\* the worker returns response without leaving the lock: the alternative
\* in which the reply is sent inside `with self.lock:`
Leaves_held(o, k, response) ==
  [o EXCEPT !.w[k].pc = "send", !.w[k].response = response, !.w[k].left = o.self]

\* the worker leaves `with self.lock:` and returns response
Leaves(o, k, response) ==
  [o EXCEPT !.lock = @ \ {k},
            !.w[k].pc = "send", !.w[k].response = response, !.w[k].left = o.self]

\* a REGISTER is handled, before the requests looked at: handle_register
\* under the lock, as a whole
OpsRegister(h) ==
  /\ ops.n = 0
  /\ h \notin DOMAIN ops.self.clients
  /\ ops' = [ops EXCEPT !.self =
       handle_register(ops.self, h, client_address(1), MyPort, 1).self]
  /\ UNCHANGED <<pair, fanout>>
  /\ UNCHANGED <<vars, threadVars, peerVars, startup, frontend, xfer>>

\* recv returned a PUBLISH or a FETCH, or no data: the worker calls
\* handle_publish, handle_fetch or, from finally, handle_disconnect
OpCall(k, op, filename, h) ==
  /\ ops.w[k].pc = "recv"
  /\ ops.n < MaxCalls
  /\ ops' = [ops EXCEPT !.n = @ + 1,
       !.w[k] = [WorkerIdle EXCEPT !.pc = "call", !.op = op,
                   !.fresh = op = "PUBLISH" /\ filename \notin DOMAIN ops.self.files,
                   !.filename = IF op = "DISCONNECT" THEN None ELSE filename,
                   !.hostname = IF op = "FETCH" THEN None ELSE h]]
  /\ UNCHANGED <<pair, fanout>>
  /\ UNCHANGED <<vars, threadVars, peerVars, startup, frontend, xfer>>

\* `with self.lock:` of the handler is entered
OpAcquire(k) ==
  /\ ops.w[k].pc = "call"
  /\ LockFree(ops.lock)
  /\ ops' = [ops EXCEPT !.lock = @ \cup {k}, !.w[k].seen = ops.self,
       !.w[k].pc = IF ops.w[k].op = "PUBLISH" THEN "known"
                   ELSE IF ops.w[k].op = "FETCH" THEN "lookup" ELSE "flag"]
  /\ UNCHANGED <<pair, fanout>>
  /\ UNCHANGED <<vars, threadVars, peerVars, startup, frontend, xfer>>

\* handle_publish: `if hostname not in self.clients: return "PUBLISH_FAIL ..."`
PublishCheckKnown(k) ==
  /\ ops.w[k].pc = "known"
  /\ ops' = IF ~PublishKnown(ops.self, ops.w[k].hostname)
            THEN Leaves(ops, k, Resp("PUBLISH_FAIL", <<"Client", "not", "registered">>))
            ELSE [ops EXCEPT !.w[k].pc = "exists"]
  /\ UNCHANGED <<pair, fanout>>
  /\ UNCHANGED <<vars, threadVars, peerVars, startup, frontend, xfer>>

\* handle_publish: `if filename not in self.files`
PublishCheckExists(k) ==
  /\ ops.w[k].pc = "exists"
  /\ ops' = [ops EXCEPT !.w[k].pc =
       IF ops.w[k].filename \notin DOMAIN ops.self.files THEN "create" ELSE "holder"]
  /\ UNCHANGED <<pair, fanout>>
  /\ UNCHANGED <<vars, threadVars, peerVars, startup, frontend, xfer>>

\* handle_publish: `self.files[filename] = {'owner': hostname, 'holders': [hostname]}`
PublishCreate(k) ==
  /\ ops.w[k].pc = "create"
  /\ LET filename == ops.w[k].filename
         h == ops.w[k].hostname IN
     ops' = [ops EXCEPT !.w[k].pc = "leave",
       !.self.files = [g \in DOMAIN ops.self.files \cup {filename} |->
                         IF g = filename THEN [owner |-> h, holders |-> <<h>>]
                         ELSE ops.self.files[g]],
       !.self.fileKeys = IF filename \in DOMAIN ops.self.files THEN @
                         ELSE Append(@, filename)]
  /\ UNCHANGED <<pair, fanout>>
  /\ UNCHANGED <<vars, threadVars, peerVars, startup, frontend, xfer>>

\* handle_publish: `if hostname not in self.files[filename]['holders']`
PublishCheckHolder(k) ==
  /\ ops.w[k].pc = "holder"
  /\ ops' = [ops EXCEPT !.w[k].pc =
       IF ~InSeq(ops.w[k].hostname, ops.self.files[ops.w[k].filename].holders)
       THEN "append" ELSE "leave"]
  /\ UNCHANGED <<pair, fanout>>
  /\ UNCHANGED <<vars, threadVars, peerVars, startup, frontend, xfer>>

\* handle_publish: `self.files[filename]['holders'].append(hostname)`
PublishAppend(k) ==
  /\ ops.w[k].pc = "append"
  /\ ops' = [ops EXCEPT !.w[k].pc = "leave",
       !.self.files[ops.w[k].filename].holders = Append(@, ops.w[k].hostname)]
  /\ UNCHANGED <<pair, fanout>>
  /\ UNCHANGED <<vars, threadVars, peerVars, startup, frontend, xfer>>

\* handle_publish: the lock is left, `return "PUBLISH_SUCCESS"`
PublishLeave(k) ==
  /\ ops.w[k].pc = "leave"
  /\ ops' = Leaves(ops, k, Resp("PUBLISH_SUCCESS", <<>>))
  /\ UNCHANGED <<pair, fanout>>
  /\ UNCHANGED <<vars, threadVars, peerVars, startup, frontend, xfer>>

\* handle_fetch: `if filename not in self.files or len(holders) == 0`,
\* then `owner = ...; peers = []`
FetchLookup(k) ==
  /\ ops.w[k].pc = "lookup"
  /\ LET filename == ops.w[k].filename IN
     ops' = IF filename \notin DOMAIN ops.self.files
               \/ Len(ops.self.files[filename].holders) = 0
            THEN Leaves(ops, k, Resp("FETCH_NOT_FOUND", <<>>))
            ELSE [ops EXCEPT !.w[k].pc = "loop", !.w[k].peers = <<>>, !.w[k].i = 1]
  /\ UNCHANGED <<pair, fanout>>
  /\ UNCHANGED <<vars, threadVars, peerVars, startup, frontend, xfer>>

\* handle_fetch: one turn of `for hostname in holders`, or the end of the
\* loop, `if not peers`, and the return
FetchLoop(k) ==
  /\ ops.w[k].pc = "loop"
  /\ LET file_info == ops.self.files[ops.w[k].filename]
         i == ops.w[k].i IN
     ops' = IF i > Len(file_info.holders)
            THEN Leaves(ops, k, IF ops.w[k].peers = <<>>
                                THEN Resp("FETCH_NOT_FOUND", <<>>)
                                ELSE Resp("FETCH_OK", ops.w[k].peers))
            ELSE [ops EXCEPT !.w[k].i = @ + 1,
                    !.w[k].peers =
                      IF IsActiveHolder(ops.self, file_info.holders[i])
                      THEN Append(@, PeerEntry(ops.self, file_info.holders[i],
                                               file_info.owner))
                      ELSE @]
  /\ UNCHANGED <<pair, fanout>>
  /\ UNCHANGED <<vars, threadVars, peerVars, startup, frontend, xfer>>

\* handle_disconnect: `if hostname in self.clients: ...['active'] = False`
DisconnectFlag(k) ==
  /\ ops.w[k].pc = "flag"
  /\ LET o == [ops EXCEPT !.self = handle_disconnect(ops.self, ops.w[k].hostname)] IN
     ops' = [Leaves(o, k, None) EXCEPT !.w[k].pc = "closed"]
  /\ UNCHANGED <<pair, fanout>>
  /\ UNCHANGED <<vars, threadVars, peerVars, startup, frontend, xfer>>

\* client_socket.send(response); the loop goes back to recv
OpSend(k) ==
  /\ ops.w[k].pc = "send"
  /\ ops' = [ops EXCEPT !.w[k] = WorkerIdle]
  /\ UNCHANGED <<pair, fanout>>
  /\ UNCHANGED <<vars, threadVars, peerVars, startup, frontend, xfer>>

NextOps ==
  \/ \E h \in OpHosts : OpsRegister(h)
  \/ \E k \in Workers, op \in OpNames, h \in OpHosts : OpCall(k, op, SharedName, h)
  \/ \E k \in Workers : OpAcquire(k)
  \/ \E k \in Workers : PublishCheckKnown(k)
  \/ \E k \in Workers : PublishCheckExists(k)
  \/ \E k \in Workers : PublishCreate(k)
  \/ \E k \in Workers : PublishCheckHolder(k)
  \/ \E k \in Workers : PublishAppend(k)
  \/ \E k \in Workers : PublishLeave(k)
  \/ \E k \in Workers : FetchLookup(k)
  \/ \E k \in Workers : FetchLoop(k)
  \/ \E k \in Workers : DisconnectFlag(k)
  \/ \E k \in Workers : OpSend(k)

SpecOps == Init /\ [][NextOps]_<<vars, threadVars, peerVars, clientVars>>

\* the statements of worker k from the first one under the lock to the send
OpRun(k) ==
  \/ PublishCheckKnown(k)
  \/ PublishCheckExists(k)
  \/ PublishCreate(k)
  \/ PublishCheckHolder(k)
  \/ PublishAppend(k)
  \/ PublishLeave(k)
  \/ FetchLookup(k)
  \/ FetchLoop(k)
  \/ DisconnectFlag(k)
  \/ OpSend(k)

\* the workers whose connections send requests; the connection of the
\* third worker stays silent, its worker waits in recv for ever
Talkers == {1, 2}

NextLive ==
  \/ \E h \in OpHosts : OpsRegister(h)
  \/ \E k \in Talkers, op \in OpNames, h \in OpHosts : OpCall(k, op, SharedName, h)
  \/ \E k \in Talkers : OpAcquire(k)
  \/ \E k \in Talkers : PublishCheckKnown(k)
  \/ \E k \in Talkers : PublishCheckExists(k)
  \/ \E k \in Talkers : PublishCreate(k)
  \/ \E k \in Talkers : PublishCheckHolder(k)
  \/ \E k \in Talkers : PublishAppend(k)
  \/ \E k \in Talkers : PublishLeave(k)
  \/ \E k \in Talkers : FetchLookup(k)
  \/ \E k \in Talkers : FetchLoop(k)
  \/ \E k \in Talkers : DisconnectFlag(k)
  \/ \E k \in Talkers : OpSend(k)

\* The workers under fair scheduling: a worker thread that can run a
\* statement is eventually run, and one that waits at `with self.lock:` is
\* not passed over for ever when the lock is released again and again.
\* Nothing makes a peer send: OpCall has no fairness.
LiveOps ==
  /\ Init /\ [][NextLive]_<<vars, threadVars, peerVars, clientVars>>
  /\ \A k \in Talkers : WF_ops(OpRun(k)) /\ SF_ops(OpAcquire(k))

\* -------------- two download_from_peer calls writing one destination file
\* Two threads of one peer (two download jobs of the front end, or a job
\* and the command thread) download a.txt at the same time, each over its
\* own connection, into os.path.join(self.shared_folder, filename). The
\* file object of each call has its own position and its own write buffer;
\* a zero stands for a byte of a hole that a write past the end leaves.

\* the stream bytes a responder may send
StreamBytes == {"x", "y"}

\* the other download thread
Other(t) == CHOOSE u \in Threads : u # t

\* `with open(filepath, 'wb') as f` waiting for the other download: the
\* alternative in which the destination is opened exclusively
FileBusy_exclusive(p, t) == p.d[Other(t)].pc = "receiving"

\* `with open(filepath, 'wb') as f` takes no lock and writes to the final
\* path: it never waits for another call that has the file open
FileBusy(p, t) == FALSE

\* the file after data has been written at position pos
WriteAt(file, pos, data) ==
  LET padded == IF Len(file) < pos THEN file \o Fill("0", pos - Len(file)) ELSE file
  IN SubSeq(padded, 1, pos) \o data \o SubSeq(padded, pos + Len(data) + 1, Len(padded))

\* the buffer of thread t's file object written out at its position
Flushed(p, t) ==
  [p EXCEPT !.file = WriteAt(p.file, p.d[t].pos, p.d[t].buf),
            !.d[t].pos = @ + Len(p.d[t].buf),
            !.d[t].buf = ""]

\* the end of the with block (the buffer is written out, the file closed)
\* and the return value `received == filesize`
PairReturn(p, t) ==
  [Flushed(p, t) EXCEPT
     !.d[t].pc = "done",
     !.d[t].ok = IF DownloadComplete(p.d[t].received, p.d[t].filesize)
                 THEN "true" ELSE "false"]

\* download_from_peer: connect, `DOWNLOAD a.txt`, `FILESIZE n` received
\* from a responder whose file is n bytes b, BEGIN_DOWNLOAD sent
PairAsk(t, n, b) ==
  /\ pair.d[t].pc = "idle"
  /\ pair' = [pair EXCEPT !.d[t].pc = "open", !.d[t].filesize = n,
                          !.d[t].byte = b]
  /\ UNCHANGED <<ops, fanout>>
  /\ UNCHANGED <<vars, threadVars, peerVars, startup, frontend, xfer>>

\* download_from_peer: `with open(filepath, 'wb') as f` creates or
\* truncates the file
PairOpen(t) ==
  /\ pair.d[t].pc = "open"
  /\ ~FileBusy(pair, t)
  /\ pair' = [pair EXCEPT !.file = "", !.d[t].pc = "receiving",
                          !.d[t].pos = 0, !.d[t].buf = "", !.d[t].received = 0,
                          !.overlap = @ \/ pair.d[Other(t)].pc = "receiving"]
  /\ UNCHANGED <<ops, fanout>>
  /\ UNCHANGED <<vars, threadVars, peerVars, startup, frontend, xfer>>

\* download_from_peer: recv(BUFFER_SIZE) returns the next k bytes of the
\* stream, or nothing when the connection has ended early; f.write(data)
PairRecv(t, k) ==
  /\ pair.d[t].pc = "receiving"
  /\ pair.d[t].received < pair.d[t].filesize
  /\ IF k = 0
     THEN pair' = PairReturn(pair, t)
     ELSE /\ k <= pair.d[t].filesize - pair.d[t].received
          /\ pair' = [pair EXCEPT !.d[t].buf = @ \o Fill(pair.d[t].byte, k),
                                  !.d[t].received = @ + k]
  /\ UNCHANGED <<ops, fanout>>
  /\ UNCHANGED <<vars, threadVars, peerVars, startup, frontend, xfer>>

\* the buffered writer writes its buffer out before the file is closed
PairFlush(t) ==
  /\ pair.d[t].pc = "receiving"
  /\ pair.d[t].buf # ""
  /\ pair' = Flushed(pair, t)
  /\ UNCHANGED <<ops, fanout>>
  /\ UNCHANGED <<vars, threadVars, peerVars, startup, frontend, xfer>>

\* download_from_peer: `while received < filesize` ends
PairDone(t) ==
  /\ pair.d[t].pc = "receiving"
  /\ pair.d[t].received >= pair.d[t].filesize
  /\ pair' = PairReturn(pair, t)
  /\ UNCHANGED <<ops, fanout>>
  /\ UNCHANGED <<vars, threadVars, peerVars, startup, frontend, xfer>>

NextPair ==
  \/ \E t \in Threads, n \in 1 .. MaxSize, b \in StreamBytes : PairAsk(t, n, b)
  \/ \E t \in Threads : PairOpen(t)
  \/ \E t \in Threads, k \in 0 .. BUFFER_SIZE : PairRecv(t, k)
  \/ \E t \in Threads : PairFlush(t)
  \/ \E t \in Threads : PairDone(t)

SpecPair == Init /\ [][NextPair]_<<vars, threadVars, peerVars, clientVars>>

\* ------------------- several handle_peer_download workers on one file
\* One responder shares a.txt and serves every requester on a worker of
\* its own (p2p_server starts one thread per accepted connection). Each
\* requester is another peer with a folder of its own; nobody writes the
\* responder's file. The bytes of the file differ by position.

\* the n bytes of the shared file
Content(n) == SubSeq("abcdefgh", 1, n)

\* one file object for all workers: the alternative in which the workers
\* share the read position
HandleOf_shared(k) == 1

\* `with open(filepath, 'rb') as f` in worker k: a file object of its own
HandleOf(k) == k

\* the responder's folder gets a.txt of n bytes before it is asked
FanShare(n) ==
  /\ ~fanout.shared
  /\ fanout' = [fanout EXCEPT !.shared = TRUE, !.src = Content(n)]
  /\ UNCHANGED <<ops, pair>>
  /\ UNCHANGED <<vars, threadVars, peerVars, startup, frontend, xfer>>

\* download_from_peer of requester k: connect, `DOWNLOAD a.txt`; p2p_server
\* accepts and starts worker k
FanAsk(k) ==
  /\ fanout.shared
  /\ fanout.t[k].qpc = "idle"
  /\ fanout' = [fanout EXCEPT !.t[k].qpc = "size_wait", !.t[k].rpc = "request"]
  /\ UNCHANGED <<ops, pair>>
  /\ UNCHANGED <<vars, threadVars, peerVars, startup, frontend, xfer>>

\* handle_peer_download: the file exists; os.path.getsize, `FILESIZE n`
FanServe(k) ==
  /\ fanout.t[k].rpc = "request"
  /\ fanout' = [fanout EXCEPT !.t[k].rpc = "size_sent",
                              !.t[k].filesize = Len(fanout.src)]
  /\ UNCHANGED <<ops, pair>>
  /\ UNCHANGED <<vars, threadVars, peerVars, startup, frontend, xfer>>

\* download_from_peer: `FILESIZE n` received, BEGIN_DOWNLOAD sent
FanGotSize(k) ==
  /\ fanout.t[k].qpc = "size_wait" /\ fanout.t[k].rpc = "size_sent"
  /\ fanout' = [fanout EXCEPT !.t[k].qpc = "open",
                              !.t[k].qsize = fanout.t[k].filesize]
  /\ UNCHANGED <<ops, pair>>
  /\ UNCHANGED <<vars, threadVars, peerVars, startup, frontend, xfer>>

\* download_from_peer: `with open(filepath, 'wb') as f` in k's own folder
FanDstOpen(k) ==
  /\ fanout.t[k].qpc = "open"
  /\ fanout' = [fanout EXCEPT !.t[k].qpc = "recv", !.t[k].got = "",
                              !.t[k].received = 0]
  /\ UNCHANGED <<ops, pair>>
  /\ UNCHANGED <<vars, threadVars, peerVars, startup, frontend, xfer>>

\* handle_peer_download: BEGIN_DOWNLOAD received, `open(filepath, 'rb')`
FanSrcOpen(k) ==
  /\ fanout.t[k].rpc = "size_sent"
  /\ fanout.t[k].qpc \notin {"idle", "size_wait"}
  /\ fanout' = [fanout EXCEPT
        !.t[k].rpc = "stream",
        !.pos[HandleOf(k)] = 0,
        !.both = @ \/ \E j \in Requesters \ {k} : fanout.t[j].rpc = "stream"]
  /\ UNCHANGED <<ops, pair>>
  /\ UNCHANGED <<vars, threadVars, peerVars, startup, frontend, xfer>>

\* handle_peer_download: f.read(BUFFER_SIZE) at the position of the file
\* object; `if not data: break` and close, else send
FanSrcRead(k) ==
  /\ fanout.t[k].rpc = "stream"
  /\ LET h == HandleOf(k)
         n == ReadLen(Len(fanout.src), fanout.pos[h]) IN
     fanout' = IF n = 0 THEN [fanout EXCEPT !.t[k].rpc = "closed"]
               ELSE [fanout EXCEPT
                       !.t[k].wire = @ \o SubSeq(fanout.src, fanout.pos[h] + 1,
                                                 fanout.pos[h] + n),
                       !.pos[h] = @ + n]
  /\ UNCHANGED <<ops, pair>>
  /\ UNCHANGED <<vars, threadVars, peerVars, startup, frontend, xfer>>

\* download_from_peer: recv(BUFFER_SIZE) returns j of the bytes that have
\* arrived, or nothing once the worker has closed; f.write(data)
FanDstRecv(k, j) ==
  /\ fanout.t[k].qpc = "recv"
  /\ fanout.t[k].received < fanout.t[k].qsize
  /\ IF j = 0
     THEN /\ fanout.t[k].wire = "" /\ fanout.t[k].rpc = "closed"
          /\ fanout' = [fanout EXCEPT !.t[k].qpc = "done",
                 !.t[k].ok = IF DownloadComplete(fanout.t[k].received,
                                                 fanout.t[k].qsize)
                             THEN "true" ELSE "false"]
     ELSE /\ j <= Len(fanout.t[k].wire)
          /\ fanout' = [fanout EXCEPT
                 !.t[k].got = @ \o SubSeq(fanout.t[k].wire, 1, j),
                 !.t[k].wire = SubSeq(@, j + 1, Len(@)),
                 !.t[k].received = @ + j]
  /\ UNCHANGED <<ops, pair>>
  /\ UNCHANGED <<vars, threadVars, peerVars, startup, frontend, xfer>>

\* download_from_peer: the loop ends, `received == filesize` is returned
FanDstDone(k) ==
  /\ fanout.t[k].qpc = "recv"
  /\ fanout.t[k].received >= fanout.t[k].qsize
  /\ fanout' = [fanout EXCEPT !.t[k].qpc = "done",
         !.t[k].ok = IF DownloadComplete(fanout.t[k].received, fanout.t[k].qsize)
                     THEN "true" ELSE "false"]
  /\ UNCHANGED <<ops, pair>>
  /\ UNCHANGED <<vars, threadVars, peerVars, startup, frontend, xfer>>

\* the steps of transfer k, on either side
FanStep(k) ==
  \/ FanAsk(k)
  \/ FanServe(k)
  \/ FanGotSize(k)
  \/ FanDstOpen(k)
  \/ FanSrcOpen(k)
  \/ FanSrcRead(k)
  \/ \E j \in 0 .. BUFFER_SIZE : FanDstRecv(k, j)
  \/ FanDstDone(k)

NextFanout ==
  \/ \E n \in 0 .. MaxSize : FanShare(n)
  \/ \E k \in Requesters : FanAsk(k)
  \/ \E k \in Requesters : FanServe(k)
  \/ \E k \in Requesters : FanGotSize(k)
  \/ \E k \in Requesters : FanDstOpen(k)
  \/ \E k \in Requesters : FanSrcOpen(k)
  \/ \E k \in Requesters : FanSrcRead(k)
  \/ \E k \in Requesters, j \in 0 .. BUFFER_SIZE : FanDstRecv(k, j)
  \/ \E k \in Requesters : FanDstDone(k)

SpecFanout == Init /\ [][NextFanout]_<<vars, threadVars, peerVars, clientVars>>

\* ================================================================ claims
\* a REGISTER for h has succeeded: h was inserted into the peer map
Registered(h) == InSeq(h, clientKeys)

\* filename f has been published: f was inserted into the file map
Published(f) == InSeq(f, fileKeys)

\* s is an initial part of t
IsPrefix(s, t) == Len(s) <= Len(t) /\ \A i \in 1 .. Len(s) : s[i] = t[i]

\* every holder of f is inactive
NoActiveHolder(f) ==
  \A i \in 1 .. Len(files[f].holders) : ~clients[files[f].holders[i]].active

\* the holders of f whose PeerRecord is active, in holders order
ActiveHolders(f) == SelectSeq(files[f].holders, LAMBDA h : clients[h].active)

\* C1: in every reachable state, a REGISTER for a hostname h that has
\* registered before (active or not), from any connection and with any
\* port, is answered REGISTER_FAIL and leaves the server unchanged; and a
\* REGISTER that succeeds makes every REGISTER for h after it fail so.
C1_RegisterAgainFails ==
  \A h \in Hostnames, c1 \in Conns, p1 \in PortNumbers :
    LET first == handle_register(Self, h, client_address(c1), p1, c1) IN
    /\ Registered(h) =>
         /\ first.response.tag = "REGISTER_FAIL"
         /\ first.self = Self
    /\ first.response.tag = "REGISTER_SUCCESS" =>
         \A c2 \in Conns, p2 \in PortNumbers :
           LET again == handle_register(first.self, h, client_address(c2), p2, c2) IN
           /\ again.response.tag = "REGISTER_FAIL"
           /\ again.self = first.self

\* a second REGISTER for a registered hostname has been rejected on another
\* connection (no file exists, so that connection named h in a REGISTER)
C1_Witness ==
  /\ DOMAIN files = {}
  /\ \E h \in DOMAIN clients, c \in Conns :
       /\ clients[h].socket # c
       /\ pc[c] = "recv"
       /\ hostname[c] = h

\* C2: no step changes the owner of an existing FileRecord or removes the
\* record, and the first PUBLISH of a filename records its publisher as owner.
C2_OwnerNeverChanges ==
  /\ [][\A f \in DOMAIN files :
          f \in DOMAIN files' /\ files'[f].owner = files[f].owner]_vars
  /\ [](\A f \in Filenames, h \in Hostnames :
          (~Published(f) /\ Registered(h)) =>
            handle_publish(Self, f, h).self.files[f].owner = h)

\* a file published by its owner and then by another hostname
C2_Witness ==
  \E f \in DOMAIN files :
    /\ Len(files[f].holders) >= 2
    /\ files[f].holders[1] = files[f].owner
    /\ files[f].holders[2] # files[f].owner

\* C3: every FileRecord's holders list contains that FileRecord's owner.
C3_HoldersContainOwner ==
  \A f \in DOMAIN files : InSeq(files[f].owner, files[f].holders)

\* a FileRecord whose owner has disconnected
C3_Witness ==
  \E f \in DOMAIN files :
    /\ ~clients[files[f].owner].active
    /\ Len(files[f].holders) >= 1

\* C4: for every registered h and every f, PUBLISH f h succeeds, and a second
\* PUBLISH f h succeeds and leaves the server (owner, holders and their
\* order) as the first left it; a PUBLISH by a holder changes nothing.
C4_PublishIdempotent ==
  \A f \in Filenames, h \in Hostnames :
    Registered(h) =>
      LET first == handle_publish(Self, f, h)
          again == handle_publish(first.self, f, h) IN
      /\ first.response.tag = "PUBLISH_SUCCESS"
      /\ again.response.tag = "PUBLISH_SUCCESS"
      /\ again.self = first.self
      /\ (Published(f) /\ InSeq(h, files[f].holders)) => first.self = Self

\* one hostname, one file with one holder, and three REGISTER or PUBLISH
\* requests served without a connection lost: one of them changed nothing
C4_Witness ==
  /\ Len(clientKeys) = 1
  /\ Len(fileKeys) = 1
  /\ Len(files[fileKeys[1]].holders) = 1
  /\ nreq = 3
  /\ \A c \in Conns : pc[c] = "recv" /\ hostname[c] = clientKeys[1]

\* C5: PUBLISH f h for a hostname that has never registered is answered
\* PUBLISH_FAIL and leaves the peer map and the file map unchanged.
C5_PublishUnknownFails ==
  \A f \in Filenames, h \in Hostnames :
    ~Registered(h) =>
      LET r == handle_publish(Self, f, h) IN
      /\ r.response.tag = "PUBLISH_FAIL"
      /\ r.self = Self

\* an open connection has named a never registered hostname in a PUBLISH
C5_Witness ==
  \E c \in Conns :
    /\ pc[c] = "recv"
    /\ hostname[c] \in Hostnames
    /\ ~Registered(hostname[c])
    /\ DOMAIN clients # {}

\* C6: FETCH f is answered FETCH_NOT_FOUND iff f was never published or
\* every holder of f is inactive; otherwise FETCH_OK with at least one entry.
C6_FetchNotFoundIff ==
  \A f \in Filenames :
    LET r == handle_fetch(Self, f) IN
    /\ (r.tag = "FETCH_NOT_FOUND") <=> (~Published(f) \/ NoActiveHolder(f))
    /\ r.tag # "FETCH_NOT_FOUND" => (r.tag = "FETCH_OK" /\ Len(r.args) >= 1)

\* a file with two holders, both disconnected
C6_Witness ==
  \E f \in DOMAIN files :
    /\ Len(files[f].holders) >= 2
    /\ NoActiveHolder(f)

\* C7: the entries of a FETCH_OK reply are the active holders in holders
\* order, each with the address of the connection it registered over, its
\* registered port and flag 1 iff it is the owner (at most one flag 1);
\* holders only grows at its end, a new PeerRecord holds the connection's
\* address and the port of the REGISTER, and neither changes afterwards.
C7_FetchEntries ==
  /\ [](\A f \in DOMAIN files :
          LET r == handle_fetch(Self, f)
              act == ActiveHolders(f) IN
          r.tag = "FETCH_OK" =>
            /\ Len(r.args) = Len(act)
            /\ \A i \in 1 .. Len(act) :
                 r.args[i] = <<client_address(clients[act[i]].socket),
                               ToString(clients[act[i]].port), act[i],
                               IF act[i] = files[f].owner THEN "1" ELSE "0">>
            /\ Cardinality({i \in 1 .. Len(r.args) : r.args[i][4] = "1"}) <= 1)
  /\ [](\A h \in Hostnames, c \in Conns, p \in PortNumbers :
          ~Registered(h) =>
            LET rec == handle_register(Self, h, client_address(c), p, c).self.clients[h] IN
            rec.ip = client_address(c) /\ rec.port = p /\ rec.socket = c)
  /\ [][/\ \A f \in DOMAIN files :
             f \in DOMAIN files' /\ IsPrefix(files[f].holders, files'[f].holders)
        /\ \A h \in DOMAIN clients :
             /\ h \in DOMAIN clients'
             /\ clients'[h].ip = clients[h].ip
             /\ clients'[h].port = clients[h].port
             /\ clients'[h].socket = clients[h].socket]_vars

\* owner and a later publisher registered over different connections, both active
C7_Witness ==
  \E f \in DOMAIN files :
    /\ Len(ActiveHolders(f)) >= 2
    /\ files[f].holders[1] = files[f].owner
    /\ clients[files[f].holders[1]].socket # clients[files[f].holders[2]].socket

\* C8: every hostname registered over a connection that has closed is
\* inactive.
C8_ClosedConnectionInactive ==
  \A h \in DOMAIN clients :
    pc[clients[h].socket] = "closed" => ~clients[h].active

\* C9: a step that closes a connection changes the peer map at most in
\* active flags, set to false, and changes nothing of the file map; no step
\* removes a PeerRecord, a FileRecord or a holder, or changes an owner.
C9_DisconnectOnlyFlipsActive ==
  /\ [][(\E c \in Conns : pc[c] = "recv" /\ pc'[c] = "closed") =>
          /\ files' = files
          /\ fileKeys' = fileKeys
          /\ clientKeys' = clientKeys
          /\ DOMAIN clients' = DOMAIN clients
          /\ \A h \in DOMAIN clients :
               \/ clients'[h] = clients[h]
               \/ clients'[h] = [clients[h] EXCEPT !.active = FALSE]]_vars
  /\ [][/\ IsPrefix(clientKeys, clientKeys')
        /\ IsPrefix(fileKeys, fileKeys')
        /\ DOMAIN clients \subseteq DOMAIN clients'
        /\ \A f \in DOMAIN files :
             /\ f \in DOMAIN files'
             /\ files'[f].owner = files[f].owner
             /\ IsPrefix(files[f].holders, files'[f].holders)]_vars

\* a FileRecord whose only holder, its owner, has disconnected
C9_Witness ==
  \E f \in DOMAIN files :
    /\ files[f].holders = <<files[f].owner>>
    /\ ~clients[files[f].owner].active
    /\ pc[clients[files[f].owner].socket] = "closed"

\* C10: an inactive PeerRecord stays inactive in every step, and no
\* LIST_CLIENTS_OK or FETCH_OK reply names an inactive hostname.
C10_InactiveForever ==
  /\ [][\A h \in DOMAIN clients :
          ~clients[h].active => (h \in DOMAIN clients' /\ ~clients'[h].active)]_vars
  /\ [](\A h \in DOMAIN clients :
          ~clients[h].active =>
            /\ ~InSeq(h, handle_list_clients(Self).args)
            /\ \A f \in Filenames :
                 \A i \in 1 .. Len(handle_fetch(Self, f).args) :
                   handle_fetch(Self, f).args[i][3] # h)

\* a disconnected hostname named again on a connection that is still open
C10_Witness ==
  \E h \in DOMAIN clients, c \in Conns :
    /\ ~clients[h].active
    /\ pc[clients[h].socket] = "closed"
    /\ pc[c] = "recv"
    /\ hostname[c] = h

\* the REGISTER requests for h answered REGISTER_SUCCESS, sent or about
\* to be sent
Winners(h) ==
  {s \in sent : s.hostname = h /\ s.tag = "REGISTER_SUCCESS"}
  \cup {[conn |-> c, hostname |-> h, port |-> call[c].port, tag |-> call[c].response] :
         c \in {d \in Conns : /\ pc[d] = "send"
                              /\ call[d].hostname = h
                              /\ call[d].response = "REGISTER_SUCCESS"}}

\* C11: with the workers of the connections interleaved statement by
\* statement, at most one REGISTER for a hostname is answered
\* REGISTER_SUCCESS; a registered hostname has exactly one such REGISTER and
\* the stored ip, port and socket are its; a REGISTER is answered
\* REGISTER_FAIL only when another REGISTER for the same hostname succeeded,
\* so REGISTERs for distinct fresh hostnames all succeed.
C11_OneRegisterWins ==
  /\ \A h \in Hostnames : Cardinality(Winners(h)) <= 1
  /\ \A h \in DOMAIN clients :
       \E w \in Winners(h) :
         /\ clients[h].ip = client_address(w.conn)
         /\ clients[h].port = w.port
         /\ clients[h].socket = w.conn
  /\ \A s \in sent :
       s.tag = "REGISTER_FAIL" =>
         \E w \in Winners(s.hostname) : w # s
  /\ \A s \in sent : s.tag \in {"REGISTER_SUCCESS", "REGISTER_FAIL"}

\* two workers were inside handle_register for the same hostname at the
\* same time: both have their response and neither has sent it
C11_Witness ==
  /\ \A c \in Conns : pc[c] = "send"
  /\ call[1].hostname = call[2].hostname
  /\ call[1].response # call[2].response
  /\ \E s \in sent : s.hostname # call[1].hostname /\ s.tag = "REGISTER_SUCCESS"

\* the position of x in the sequence s (0 when x is not in s)
IndexOf(x, s) ==
  IF InSeq(x, s) THEN CHOOSE i \in 1 .. Len(s) : s[i] = x ELSE 0

\* C12: the hostnames of the LIST_CLIENTS reply are exactly the hostnames
\* whose PeerRecord is active, each once, in the order in which they
\* registered (the reply has no hostname when no peer is active); the
\* registration order only grows at its end, by the hostname of a REGISTER
\* that succeeds.
C12_ListClients ==
  /\ [](LET r == handle_list_clients(Self) IN
          /\ r.tag = "LIST_CLIENTS_OK"
          /\ {r.args[i] : i \in 1 .. Len(r.args)}
               = {h \in DOMAIN clients : clients[h].active}
          /\ \A i, j \in 1 .. Len(r.args) :
               i < j => IndexOf(r.args[i], clientKeys) < IndexOf(r.args[j], clientKeys)
          /\ ({h \in DOMAIN clients : clients[h].active} = {} => r.args = <<>>))
  /\ [][/\ IsPrefix(clientKeys, clientKeys')
        /\ Len(clientKeys') <= Len(clientKeys) + 1
        /\ \A h \in Hostnames :
             (h \notin DOMAIN clients /\ h \in DOMAIN clients')
               => clientKeys' = Append(clientKeys, h)]_vars

\* two active peers, registered over different connections, are listed
C12_Witness ==
  LET r == handle_list_clients(Self) IN
  /\ Len(r.args) >= 2
  /\ clients[r.args[1]].socket # clients[r.args[2]].socket

\* C13: DISCOVER_CLIENT h is answered DISCOVER_CLIENT_NOT_FOUND iff h never
\* registered; otherwise DISCOVER_CLIENT_OK with one entry for each file
\* whose holders contain h and no other entry, whether h is active or not,
\* each flagged 1 iff h owns the file, and no entry when h holds no file.
C13_DiscoverClient ==
  \A h \in Hostnames :
    LET r == handle_discover_client(Self, h)
        held == {f \in DOMAIN files : InSeq(h, files[f].holders)} IN
    /\ (r.tag = "DISCOVER_CLIENT_NOT_FOUND") <=> ~Registered(h)
    /\ Registered(h) =>
         /\ r.tag = "DISCOVER_CLIENT_OK"
         /\ {r.args[i][1] : i \in 1 .. Len(r.args)} = held
         /\ Len(r.args) = Cardinality(held)
         /\ \A i \in 1 .. Len(r.args) :
              r.args[i][2] = (IF files[r.args[i][1]].owner = h THEN "1" ELSE "0")
         /\ (held = {} => r.args = <<>>)

\* a disconnected peer that holds a file it does not own
C13_Witness ==
  \E h \in DOMAIN clients, f \in DOMAIN files :
    /\ ~clients[h].active
    /\ InSeq(h, files[f].holders)
    /\ files[f].owner # h

\* C14: download_from_peer and download_from_peer_with_progress return
\* true only with received equal to the size declared in FILESIZE, and
\* return false whenever the connection closed before that many bytes.
C14_SuccessOnlyFullSize ==
  /\ fetcher.ok = "true" => (fetcher.received = fetcher.filesize /\ ~fetcher.eof)
  /\ (fetcher.eof /\ fetcher.received < fetcher.filesize) => fetcher.ok = "false"

\* download_from_peer_with_progress returned after the connection closed
\* with some but not all of the declared bytes received
C14_Witness ==
  /\ fetcher.mode = "with_progress"
  /\ fetcher.eof
  /\ 0 < fetcher.received
  /\ fetcher.received < fetcher.filesize
  /\ fetcher.ok = "false"

\* C15: fetch_file connects to the candidates in the order of the reply
\* (the j-th connection is to the j-th candidate), a connection is opened
\* only between downloads and after the previous download returned false,
\* and none is opened after a download returned true.
C15_InOrderUntilSuccess ==
  /\ [](\A j \in 1 .. Len(fetcher.attempts) : fetcher.attempts[j] = j)
  /\ [](fetcher.ok = "true" => fetcher.pc = "done")
  /\ [][fetcher.attempts' # fetcher.attempts =>
          /\ fetcher.pc \in {"loop", "idle"}
          /\ fetcher.ok # "true"
          /\ (fetcher.attempts # <<>> => fetcher.ok = "false")]_peerVars

\* fetch_file succeeded on the first of two candidates; the second was
\* never connected to
C15_Witness ==
  /\ fetcher.mode = "fetch_file"
  /\ fetcher.result = "success"
  /\ Len(fetcher.peers) = 2
  /\ fetcher.attempts = <<1>>

\* C16: a download that returns false makes fetch_file go on with the
\* next candidate, and fetch_file reports failure only when every
\* candidate of the reply has been attempted and the last download
\* returned false.
C16_FailureTriesNext ==
  /\ []((fetcher.mode = "fetch_file" /\ fetcher.result = "failed") =>
          /\ Len(fetcher.attempts) = Len(fetcher.peers)
          /\ fetcher.ok = "false")
  /\ []((fetcher.mode = "fetch_file" /\ fetcher.pc = "loop") =>
          /\ Len(fetcher.attempts) = fetcher.i - 1
          /\ fetcher.i <= Len(fetcher.peers) + 1)
  /\ [][(fetcher.mode = "fetch_file" /\ fetcher.ok # "false" /\ fetcher'.ok = "false") =>
          /\ fetcher'.pc = "loop"
          /\ fetcher'.i = Len(fetcher'.attempts) + 1]_peerVars

\* the download from the first candidate failed and a file of positive
\* size was obtained from the second
C16_Witness ==
  /\ fetcher.mode = "fetch_file"
  /\ fetcher.result = "success"
  /\ fetcher.attempts = <<1, 2>>
  /\ fetcher.filesize > 0

\* C17: one fetch_file call sends one FETCH to the tracker and connects
\* at most once to each candidate of the reply.
C17_OneFetchOneAttempt ==
  /\ fetcher.nFetch <= 1
  /\ fetcher.mode = "fetch_file" => fetcher.nFetch = 1
  /\ \A j, k \in 1 .. Len(fetcher.attempts) :
       j # k => fetcher.attempts[j] # fetcher.attempts[k]
  /\ Len(fetcher.attempts) <= Len(fetcher.peers)

\* fetch_file failed on both candidates of a reply
C17_Witness ==
  /\ fetcher.mode = "fetch_file"
  /\ fetcher.result = "failed"
  /\ Len(fetcher.attempts) = 2

\* C18: a response to FETCH whose first word is not FETCH_OK ends
\* fetch_file at once; then no transfer connection has been opened, one
\* FETCH has been sent, and fetch_file does nothing afterwards: no
\* connection, no further FETCH, no change of the local file.
C18_NotFoundStops ==
  /\ [](\A data \in TrackerReplies :
          (fetcher.pc = "fetch_sent"
           /\ (split(data) = <<>> \/ split(data)[1] # "FETCH_OK")) =>
            LET f == ParseFetchReply(fetcher, data) IN
            /\ f.pc = "done"
            /\ f.result \in {"not_available", "error"}
            /\ f.attempts = <<>>
            /\ f.nFetch = 1)
  /\ [](fetcher.result \in {"not_available", "error"} =>
          fetcher.pc = "done" /\ fetcher.attempts = <<>> /\ fetcher.nFetch = 1)
  /\ [][fetcher.result \in {"not_available", "error"} =>
          /\ fetcher'.pc = "done" /\ fetcher'.result = fetcher.result
          /\ fetcher'.attempts = <<>> /\ fetcher'.nFetch = 1
          /\ disk' = disk]_peerVars
  /\ [][fetcher.pc = "fetch_sent" => disk' = disk]_peerVars

\* fetch_file ended on FETCH_NOT_FOUND while the shared folder holds the file
C18_Witness ==
  /\ fetcher.result = "not_available"
  /\ fetcher.nFetch = 1
  /\ disk > 0

\* C19: the responder is streaming or has sent file bytes only if the
\* answer to FILESIZE, as a line, was BEGIN_DOWNLOAD; after any other
\* answer, or none, it has closed the connection with no file byte sent.
C19_NoByteWithoutBegin ==
  /\ (responder.pc = "stream" \/ responder.sent > 0)
       => strip(responder.ack) = "BEGIN_DOWNLOAD"
  /\ (responder.ack # None /\ strip(responder.ack) # "BEGIN_DOWNLOAD")
       => (responder.pc = "closed" /\ responder.sent = 0)

\* FILESIZE n with n > 0 was answered by something else than
\* BEGIN_DOWNLOAD and the connection is closed
C19_Witness ==
  /\ responder.pc = "closed"
  /\ responder.filesize > 0
  /\ responder.ack # None
  /\ strip(responder.ack) # "BEGIN_DOWNLOAD"
  /\ responder.sent = 0

\* C20: a responder that declared FILESIZE n, received BEGIN_DOWNLOAD and
\* closed without a send error has sent n file bytes.
C20_SendsDeclaredSize ==
  (/\ responder.pc = "closed"
   /\ strip(responder.ack) = "BEGIN_DOWNLOAD"
   /\ ~responder.error)
    => responder.sent = responder.filesize

Obs(f) ==
  [stage |-> IF f.pc \in {"size_wait", "open", "recv"} THEN f.pc ELSE "returned",
   ok |-> f.ok, out |-> f.out, filesize |-> f.filesize,
   received |-> f.received, eof |-> f.eof]

\* the same download run by download_from_peer
Plain(f) == [f EXCEPT !.mode = "fetch_file"]

\* the same download run by download_from_peer_with_progress
Progress(f) == [f EXCEPT !.mode = "with_progress"]

\* C24: at every point of a download and for every behaviour of the remote
\* peer (connection refused, any answer to DOWNLOAD, any number of bytes,
\* a closed connection), download_from_peer_with_progress with an absent,
\* returning or raising callback takes the step download_from_peer takes:
\* same value returned, same messages sent, same bytes written.
C24_ProgressIsSideChannel ==
  /\ fetcher.pc \in {"idle", "loop"} =>
       \A connected \in BOOLEAN :
         Obs(Dial(Progress(fetcher), connected)) = Obs(Dial(Plain(fetcher), connected))
  /\ fetcher.pc = "size_wait" =>
       \A data \in PeerReplies :
         Obs(ReceiveSize(Progress(fetcher), data)) = Obs(ReceiveSize(Plain(fetcher), data))
  /\ (fetcher.pc = "recv" /\ fetcher.received < fetcher.filesize) =>
       \A k \in 0 .. BUFFER_SIZE, cb \in Callbacks :
         Obs(ReceiveData(Progress(fetcher), k, cb)) = Obs(ReceiveData(Plain(fetcher), k, "none"))
  /\ (fetcher.pc = "recv" /\ fetcher.received >= fetcher.filesize) =>
       Obs(Finish(Progress(fetcher))) = Obs(Finish(Plain(fetcher)))

\* a download with progress returned true although its callback raised
C24_Witness ==
  /\ fetcher.mode = "with_progress"
  /\ fetcher.cbRaised
  /\ fetcher.ok = "true"
  /\ fetcher.received > 0
  /\ fetcher.out = <<"DOWNLOAD " \o SharedName, "BEGIN_DOWNLOAD">>

\* the PUBLISH lines among the requests sent to the tracker
Publishes(f) == SelectSeq(f.requests, LAMBDA line : startswith(line, "PUBLISH"))

\* C25: no step of fetch_file, download_from_peer or
\* download_from_peer_with_progress sends a PUBLISH: while one of them
\* runs the PUBLISH lines sent to the tracker stay as they are, and when
\* it returns none has been sent; a PUBLISH is sent only by the caller's
\* publish_file after the return.
C25_FetchSendsNoPublish ==
  /\ [][fetcher.pc # "done" => Publishes(fetcher') = Publishes(fetcher)]_peerVars
  /\ [](fetcher.pc # "done" => Publishes(fetcher) = <<>>)
  /\ [][Publishes(fetcher') # Publishes(fetcher) =>
          /\ fetcher.pc = "done"
          /\ Publishes(fetcher') = <<"PUBLISH " \o SharedName \o " " \o MyHostname>>]_peerVars

\* a fetch succeeded and the caller has then published the file
C25_Witness ==
  /\ fetcher.result = "success"
  /\ fetcher.mode = "fetch_file"
  /\ fetcher.requests = <<"FETCH " \o SharedName,
                          "PUBLISH " \o SharedName \o " " \o MyHostname>>

\* C29: a download_from_peer that returned true logged exactly
\* `File size: n bytes` and then `Download complete: n bytes`, n being the
\* announced size; one that returned false logged no `Download complete`.
C29_SizeThenComplete ==
  fetcher.mode = "fetch_file" =>
    /\ fetcher.ok = "true" =>
         /\ fetcher.log = <<"File size: " \o ToString(fetcher.filesize) \o " bytes",
                            "Download complete: " \o ToString(fetcher.filesize) \o " bytes">>
         /\ fetcher.received = fetcher.filesize
    /\ fetcher.ok = "false" =>
         \A j \in 1 .. Len(fetcher.log) : ~startswith(fetcher.log[j], "Download complete")

\* a download_from_peer of a non-empty file returned true
C29_Witness ==
  /\ fetcher.mode = "fetch_file"
  /\ fetcher.ok = "true"
  /\ fetcher.filesize > 0
  /\ Len(fetcher.log) = 2

\* the requests that make a worker raise: REGISTER without a port or with
\* a port that is no number, PUBLISH and FETCH with a field missing
FailingRequests ==
  {<<"REGISTER", h>> : h \in Hostnames}
    \cup {<<"REGISTER", h, "x">> : h \in Hostnames}
    \cup {<<"PUBLISH">>, <<"FETCH">>}
    \cup {<<"PUBLISH", f>> : f \in Filenames}

\* C27: when the worker of an open connection c fails on a request, the
\* tracker it leaves has every PeerRecord registered over another
\* connection, and every FileRecord, as it was.
C27_FailureIsLocal ==
  \A c \in Conns : pc[c] = "recv" =>
    \A parts \in FailingRequests :
      LET after == Dropped(Self, LocalHostname(c, parts)) IN
      /\ after.files = files
      /\ \A h \in DOMAIN clients :
           clients[h].socket # c => after.clients[h] = clients[h]

\* C30: a PeerRecord is inactive only if the connection over which the
\* hostname registered has closed.
C30_InactiveOnlyAfterOwnClose ==
  \A h \in DOMAIN clients :
    ~clients[h].active => pc[clients[h].socket] = "closed"

\* the PUBLISH lines the starting peer would send for its share directory:
\* one for each regular file, in the order of the listing
RECURSIVE ExpectedPublishes(_)
ExpectedPublishes(dir) ==
  IF dir = <<>> THEN <<>>
  ELSE (IF Head(dir).isfile
        THEN <<"PUBLISH " \o Head(dir).name \o " " \o MyHostname>> ELSE <<>>)
       \o ExpectedPublishes(Tail(dir))

\* the PUBLISH lines among the requests the starting peer has sent
SentPublishes == SelectSeq(startup.requests, LAMBDA line : startswith(line, "PUBLISH"))

\* C22: whenever the tracker lists the peer as a holder of a file, the
\* peer's transfer port is listening.
C22_ListedOnlyWhileListening ==
  startup.listed # {} => startup.listener = "listening"

\* C23: the PUBLISH lines sent are, in the order of the listing, the lines
\* of the regular files, each under the peer's own hostname and none
\* twice; when connect_to_server has returned after REGISTER_SUCCESS it
\* has returned true, and, the connection not having broken, every
\* regular file has had its PUBLISH, whatever the answers were; a peer
\* whose REGISTER was not answered with REGISTER_SUCCESS has sent none and
\* connect_to_server has returned false.
C23_OnePublishPerFile ==
  /\ IsPrefix(SentPublishes, ExpectedPublishes(startup.dir))
  /\ (startup.registered /\ startup.pc \in {"connected", "command"}) =>
       /\ startup.result = "true"
       /\ ~startup.broken => SentPublishes = ExpectedPublishes(startup.dir)
  /\ startup.registered => startup.result # "false"
  /\ ~startup.registered => SentPublishes = <<>>
  /\ (~startup.registered /\ startup.pc = "returned") => startup.result = "false"

\* the PUBLISH of the first of two regular files was refused, the second
\* was published, and connect_to_server returned true
C23_Witness ==
  /\ startup.result = "true"
  /\ ~startup.broken
  /\ Len(SentPublishes) = 2
  /\ \E i \in 1 .. Len(startup.dir) :
       /\ startup.dir[i].isfile
       /\ startup.dir[i].name \in startup.failed
       /\ \E j \in i + 1 .. Len(startup.dir) : startup.dir[j].name \in startup.listed

\* C26: at most one job thread has sent a request and not yet received a
\* response, and every finished operation has received the response to
\* its own request.
C26_OneRequestInFlight ==
  /\ Cardinality({t \in Threads : frontend.job[t].pc = "sent"}) <= 1
  /\ \A t \in Threads :
       frontend.job[t].pc = "done" =>
         frontend.job[t].reply = Answer(frontend.job[t].request)

\* C28: when download_from_peer has returned true, the requester's file
\* has the content the responder's file had at some moment of the
\* transfer.
C28_ByteIdentical ==
  xfer.ok = "true" => xfer.dst \in xfer.held

\* worker k has run the handler of its request to the end
HasLeft(k) == ops.w[k].pc \in {"send", "closed"}

\* C31: every handler run by a worker among other workers has the effect
\* and the response of the handler run alone on the tracker the worker
\* found when it entered the lock: a PUBLISH that of handle_publish, a
\* FETCH the response of handle_fetch on an unchanged tracker, a
\* disconnect that of handle_disconnect. Every FileRecord has its owner
\* first in holders and no hostname twice, and a publisher answered
\* PUBLISH_SUCCESS is among the holders.
C31_OperationsAtomic ==
  /\ \A k \in Workers : HasLeft(k) =>
       LET w == ops.w[k] IN
       /\ w.op = "PUBLISH" =>
            /\ w.left = handle_publish(w.seen, w.filename, w.hostname).self
            /\ w.response = handle_publish(w.seen, w.filename, w.hostname).response
            /\ w.response.tag = "PUBLISH_SUCCESS" =>
                 InSeq(w.hostname, ops.self.files[w.filename].holders)
       /\ w.op = "FETCH" =>
            /\ w.left = w.seen
            /\ w.response = handle_fetch(w.seen, w.filename)
       /\ w.op = "DISCONNECT" => w.left = handle_disconnect(w.seen, w.hostname)
  /\ \A f \in DOMAIN ops.self.files :
       LET holders == ops.self.files[f].holders IN
       /\ holders # <<>> /\ holders[1] = ops.self.files[f].owner
       /\ \A i, j \in 1 .. Len(holders) : holders[i] = holders[j] => i = j

\* two workers received the first PUBLISH of the same filename from two
\* hostnames before either had handled it; both were answered
\* PUBLISH_SUCCESS and the FileRecord has both holders
C31_Witness ==
  \E k1, k2 \in Workers :
    /\ k1 # k2
    /\ HasLeft(k1) /\ HasLeft(k2)
    /\ ops.w[k1].op = "PUBLISH" /\ ops.w[k2].op = "PUBLISH"
    /\ ops.w[k1].filename = ops.w[k2].filename
    /\ ops.w[k1].hostname # ops.w[k2].hostname
    /\ ops.w[k1].fresh /\ ops.w[k2].fresh
    /\ ops.w[k1].response.tag = "PUBLISH_SUCCESS"
    /\ ops.w[k2].response.tag = "PUBLISH_SUCCESS"
    /\ Len(ops.self.files[ops.w[k1].filename].holders) = 2

\* how far the requester side of the current transfer is: 1 awaiting the
\* size, 2 acknowledged, 3 receiving, 4 returned (complete or failed),
\* 0 before the first transfer
Stage(f) ==
  IF f.pc = "size_wait" THEN 1
  ELSE IF f.pc = "open" THEN 2
  ELSE IF f.pc = "recv" THEN 3
  ELSE IF f.ok \in {"true", "false"} THEN 4
  ELSE 0

\* C32: within one transfer the requester goes forward only, one stage at
\* a time or straight to its end, and once returned its result stays;
\* BEGIN_DOWNLOAD is sent exactly on an answer to DOWNLOAD that starts with
\* FILESIZE and carries a size, and any other answer ends the transfer as
\* failed; the local file changes only after BEGIN_DOWNLOAD was sent; a
\* transfer that has returned is complete exactly if BEGIN_DOWNLOAD was
\* sent and the bytes received equal the declared size.
C32_RequesterStateMachine ==
  /\ [][Len(fetcher'.attempts) = Len(fetcher.attempts) =>
          /\ Stage(fetcher') >= Stage(fetcher)
          /\ Stage(fetcher') <= Stage(fetcher) + 1 \/ Stage(fetcher') = 4
          /\ Stage(fetcher) = 4 => fetcher'.ok = fetcher.ok]_peerVars
  /\ [](fetcher.pc = "size_wait" =>
          /\ ~InSeq("BEGIN_DOWNLOAD", fetcher.out)
          /\ \A data \in PeerReplies :
               LET g == ReceiveSize(fetcher, data) IN
               IF startswith(strip(data), "FILESIZE") /\ g.ok # "false"
               THEN /\ Stage(g) = 2
                    /\ g.out = Append(fetcher.out, "BEGIN_DOWNLOAD")
               ELSE /\ Stage(g) = 4 /\ g.ok = "false"
                    /\ g.out = fetcher.out)
  /\ [][(fetcher.pc # "idle" /\ disk' # disk) =>
          InSeq("BEGIN_DOWNLOAD", fetcher.out)]_peerVars
  /\ [](Stage(fetcher) \in {2, 3} => InSeq("BEGIN_DOWNLOAD", fetcher.out))
  /\ [](Stage(fetcher) = 4 =>
          (fetcher.ok = "true" <=>
             (InSeq("BEGIN_DOWNLOAD", fetcher.out)
              /\ fetcher.received = fetcher.filesize)))

\* the first candidate's transfer failed while receiving and the second
\* went through every stage to its end, complete
C32_Witness ==
  /\ fetcher.mode = "fetch_file"
  /\ Len(fetcher.attempts) = 2
  /\ Stage(fetcher) = 4
  /\ fetcher.ok = "true"
  /\ fetcher.received = fetcher.filesize
  /\ fetcher.filesize > 0
  /\ fetcher.out = <<"DOWNLOAD " \o SharedName, "BEGIN_DOWNLOAD">>

\* C33: after a download that returned false the shared folder is as it
\* was when the download was called: the file absent if it was absent,
\* with the size it had otherwise.
C33_FailureLeavesFolder ==
  fetcher.ok = "false" => disk = fetcher.before

\* the failure replies of the tracker
FailureTags ==
  {"REGISTER_FAIL", "PUBLISH_FAIL", "FETCH_NOT_FOUND", "DISCOVER_CLIENT_NOT_FOUND",
   "UNKNOWN_COMMAND"}

\* the well-formed REGISTER and PUBLISH requests
UpdateRequests ==
  {<<"REGISTER", h, tok>> : h \in Hostnames, tok \in PortTokens}
    \cup {<<"PUBLISH", f, h>> : f \in Filenames, h \in Hostnames}

\* C34: on every open connection, every FETCH, LIST_CLIENTS and
\* DISCOVER_CLIENT request and every line whose first token is no command
\* is answered, the latter with UNKNOWN_COMMAND, and every request
\* answered with a failure reply leaves the peer map and the file map as
\* they were; the worker does not raise, so the connection stays open.
C34_FailuresAndQueriesChangeNothing ==
  \A c \in Conns : pc[c] = "recv" =>
    /\ \A parts \in QueryRequests :
         LET r == Dispatch(Self, c, parts) IN
         /\ ~r.raised
         /\ r.self = Self
         /\ parts[1] \notin Commands => r.response.tag = "UNKNOWN_COMMAND"
         /\ parts[1] = "FETCH" => r.response.tag \in {"FETCH_OK", "FETCH_NOT_FOUND"}
         /\ parts[1] = "LIST_CLIENTS" => r.response.tag = "LIST_CLIENTS_OK"
         /\ parts[1] = "DISCOVER_CLIENT" =>
              r.response.tag \in {"DISCOVER_CLIENT_OK", "DISCOVER_CLIENT_NOT_FOUND"}
    /\ \A parts \in UpdateRequests :
         LET r == Dispatch(Self, c, parts) IN
         /\ ~r.raised
         /\ r.response.tag \in FailureTags => r.self = Self

\* a connection has named, in a request that changed nothing, a hostname
\* registered over another connection, and both connections are open:
\* its REGISTER was answered REGISTER_FAIL
C34_Witness ==
  \E c, d \in Conns :
    /\ c # d
    /\ pc[c] = "recv" /\ pc[d] = "recv"
    /\ nreq = 2
    /\ Len(clientKeys) = 1
    /\ files = [f \in {} |-> None]
    /\ hostname[c] = clientKeys[1]
    /\ clients[clientKeys[1]].socket = d

\* the stream download t was sent: filesize bytes of its responder's file
StreamOf(t) == Fill(pair.d[t].byte, pair.d[t].filesize)

\* C35: two simultaneous downloads of a.txt into one shared folder are
\* not mutually excluded. A download that has sent BEGIN_DOWNLOAD can
\* open the destination in every state, also while the other one is in
\* RECEIVING with the same file open; each reports success exactly when
\* its own byte count equals its own declared size, whatever the file
\* then holds; the file equals the stream when both succeed with the same
\* stream. With two different streams both succeed on a file that is
\* neither of them (C35_Witness).
C35_DownloadsNotExcluded ==
  /\ \A t \in Threads : pair.d[t].pc = "open" => ENABLED PairOpen(t)
  /\ \A t \in Threads :
       pair.d[t].pc = "done" =>
         (pair.d[t].ok = "true" <=> pair.d[t].received = pair.d[t].filesize)
  /\ (/\ \A t \in Threads : pair.d[t].pc = "done" /\ pair.d[t].ok = "true"
      /\ StreamOf(1) = StreamOf(2))
     => pair.file = StreamOf(1)

\* both downloads were in RECEIVING at the same time, both returned True,
\* their streams differ and the file is equal to neither stream
C35_Witness ==
  /\ pair.overlap
  /\ \A t \in Threads : pair.d[t].pc = "done" /\ pair.d[t].ok = "true"
  /\ StreamOf(1) # StreamOf(2)
  /\ pair.file # StreamOf(1)
  /\ pair.file # StreamOf(2)

\* C36: the workers that serve several requesters of the same file at the
\* same time are independent. While the responder's file is not modified,
\* every requester is told FILESIZE n with n the size of the file, the
\* bytes it has written and those on its connection are the bytes of the
\* file in order, its worker closes after exactly n bytes, its call
\* returns True with a copy of n bytes equal to the file, and as long as
\* it has not returned a step of its transfer is possible, wherever the
\* other transfers are.
C36_WorkersIndependent ==
  \A k \in Requesters :
    LET x == fanout.t[k] IN
    /\ x.rpc \in {"size_sent", "stream", "closed"} => x.filesize = Len(fanout.src)
    /\ x.qpc \in {"open", "recv", "done"} => x.qsize = Len(fanout.src)
    /\ startswith(fanout.src, x.got \o x.wire)
    /\ x.received = Len(x.got)
    /\ x.rpc = "closed" => Len(x.got) + Len(x.wire) = Len(fanout.src)
    /\ x.qpc = "done" =>
         x.ok = "true" /\ x.got = fanout.src /\ x.received = x.qsize
    /\ (fanout.shared /\ x.qpc # "done") => ENABLED FanStep(k)

\* two workers have been streaming the file of MaxSize bytes at the same
\* time and both requesters have returned True
C36_Witness ==
  /\ fanout.both
  /\ Len(fanout.src) = MaxSize
  /\ \A k \in Requesters : fanout.t[k].qpc = "done" /\ fanout.t[k].ok = "true"

\* C37: the registry lock is never held by a worker that waits for input,
\* waits for the lock or sends its reply, and at most one worker holds it;
\* so, under fair scheduling, every PUBLISH and FETCH a worker has received
\* is answered and the worker is back at recv, whatever the other
\* connections do and however long they stay silent.
C37_SilentConnectionTiesOnlyItsWorker ==
  /\ [](\A k \in Workers :
          /\ ops.w[k].pc \in {"recv", "call", "send", "closed"} => k \notin ops.lock
          /\ k \in ops.lock => ops.lock = {k})
  /\ \A k \in Workers :
       (ops.w[k].pc = "call" /\ ops.w[k].op # "DISCONNECT") ~> (ops.w[k].pc = "recv")

\* the third connection has been silent all along, its worker is in recv;
\* the first worker is about to send the reply to a FETCH and the second,
\* whose PUBLISH came later, holds the lock
C37_Witness ==
  /\ ops.w[3] = WorkerIdle
  /\ ops.w[1].pc = "send" /\ ops.w[1].op = "FETCH"
  /\ ops.w[2].op = "PUBLISH"
  /\ ops.lock = {2}

\* C38: when every opened connection eventually delivers data or closes,
\* every transfer attempt that has sent its DOWNLOAD request eventually
\* returns, complete or failed, and every fetch_file call and every
\* download call eventually returns; the candidates are tried in the
\* order of the FETCH_OK reply, none twice, so that there are never more
\* attempts than the reply has candidates.
C38_FetchTerminates ==
  /\ [](/\ Len(fetcher.attempts) <= Len(fetcher.peers)
        /\ \A a, b \in 1 .. Len(fetcher.attempts) :
             a < b => fetcher.attempts[a] < fetcher.attempts[b])
  /\ (Stage(fetcher) \in {1, 2, 3}) ~> (Stage(fetcher) = 4)
  /\ (fetcher.pc # "idle") ~> (fetcher.pc = "done")

\* fetch_file has returned after one failed attempt for each of NumPeers
\* candidates, the last of which failed while receiving
C38_Witness ==
  /\ fetcher.mode = "fetch_file"
  /\ fetcher.pc = "done"
  /\ Len(fetcher.peers) = NumPeers
  /\ Len(fetcher.attempts) = NumPeers
  /\ fetcher.ok = "false"
  /\ fetcher.eof

\* C39: every hostname in a holders list has a PeerRecord, and is in the
\* list once.
C39_HoldersRegisteredOnce ==
  \A f \in DOMAIN files :
    LET holders == files[f].holders IN
    /\ \A i \in 1 .. Len(holders) :
         holders[i] \in DOMAIN clients /\ Registered(holders[i])
    /\ \A i, j \in 1 .. Len(holders) : holders[i] = holders[j] => i = j

\* a file with two holders, the second of which has disconnected while
\* the owner is active
C39_Witness ==
  \E f \in DOMAIN files :
    /\ Len(files[f].holders) = 2
    /\ clients[files[f].holders[1]].active
    /\ ~clients[files[f].holders[2]].active
    /\ Len(fileKeys) = 1

\* C40: on every open connection c, PUBLISH f h is answered
\* PUBLISH_SUCCESS for every h that has a PeerRecord, whichever connection
\* registered h and whether h is active or not; if f is new, h is its
\* owner afterwards, and no later step changes the owner.
C40_AnyConnectionPublishesForAnyPeer ==
  /\ [](\A c \in Conns : pc[c] = "recv" =>
          \A f \in Filenames, h \in DOMAIN clients :
            LET r == Dispatch(Self, c, <<"PUBLISH", f, h>>) IN
            /\ ~r.raised
            /\ r.response.tag = "PUBLISH_SUCCESS"
            /\ InSeq(h, r.self.files[f].holders)
            /\ f \notin DOMAIN files => r.self.files[f].owner = h)
  /\ [][\A f \in DOMAIN files : files'[f].owner = files[f].owner]_vars

\* h registered over a connection that has closed; the only other request
\* there has been came over another connection and made h the owner of a
\* file
C40_Witness ==
  \E c, d \in Conns, f \in DOMAIN files :
    LET h == files[f].owner IN
    /\ c # d
    /\ clients[h].socket = d
    /\ pc[d] = "closed" /\ ~clients[h].active
    /\ pc[c] = "recv" /\ hostname[c] = h
    /\ nreq = 2

====
